---- MODULE Spec2Model ----
(***************************************************************************)
(* sleep-bandit: the event-sourced state engine (src/lib/events.ts) and    *)
(* the React hook that drives it (src/hooks/useAppState.ts).               *)
(*                                                                         *)
(* Conventions                                                             *)
(*  - JavaScript arrays are sequences; the indices stored in events,       *)
(*    groups and observations keep their 0-based source values and are     *)
(*    shifted by one only where a sequence is accessed.                    *)
(*  - null / undefined of an optional object is the empty sequence Null,   *)
(*    a present object x is Some(x).                                       *)
(*  - A call that throws yields Thrown (no state at all), a call that      *)
(*    returns s yields Ok(s).                                              *)
(*  - Timestamps are integers (milliseconds); the numbers of the           *)
(*    statistical config are kept in tenths (tau 2.5 is 25).               *)
(***************************************************************************)
EXTENDS Integers, Sequences, FiniteSets, TLC

VARIABLES
  state,          \* useReducer state of the hook: Ok(AppState), Thrown once a render threw
  eventLogRef,    \* eventLogRef.current: the in-memory EventLog
  storage,        \* the persisted EventLog (what loadEventLog would return)
  pc,             \* position inside the running handler ("idle" between handlers)
  inflight,       \* the event built by the running appendEvent call
  queue,          \* events dispatched to the reducer and not yet reduced by a render
  now,            \* the clock read by new Date()
  DEFAULT_STATE,  \* the module-level object of events.ts every replay starts from
  evs,            \* replay harness: the event sequence folded so far
  acc,            \* replay harness: applyEvent applied event by event, without a context
  replays,        \* replay harness: result of replayEvents for each prefix, when it was run
  invoked,        \* library calls: the function called and its arguments, Null before a call
  returned,       \* library calls: what the call returned
  isAdding,       \* GroupManager: the form is open for a new group
  editingIndex,   \* GroupManager: Some(index of the group being edited), or Null
  groupName,      \* GroupManager: the text of the name input
  selectedInterventions  \* GroupManager: the indices whose checkbox is ticked

vars == <<state, eventLogRef, storage, pc, inflight, queue, now, DEFAULT_STATE,
          evs, acc, replays, invoked, returned,
          isAdding, editingIndex, groupName, selectedInterventions>>

harnessVars == <<evs, acc, replays>>

libVars == <<invoked, returned>>

uiVars == <<isAdding, editingIndex, groupName, selectedInterventions>>

-----------------------------------------------------------------------------
(* Bounds of the model *)

\* events one session of the hook appends
MaxOps == 2
\* events the replay harness appends to the sequence it starts from
MaxReplayLen == 2

-----------------------------------------------------------------------------
(* Values *)

Null == <<>>
Some(x) == <<x>>
Thrown == <<>>
Ok(s) == <<s>>

CURRENT_VERSION == 1

\* the clock value at construction
StartTime == 1000

InterventionNames == {"a", "b"}

DEFAULT_NOTE_TAG_DEFINITIONS ==
  << [label |-> "wokeUpLong", description |-> "woke up"],
     [label |-> "nightmares", description |-> "nightmares"],
     [label |-> "nightSweats", description |-> "night sweats"] >>

DefaultStateValue ==
  [ interventions |-> <<>>,
    observations |-> <<>>,
    pendingNight |-> Null,
    groups |-> <<>>,
    config |-> [baseline |-> 690, tau |-> 25, sigma |-> 120],
    noteTagDefinitions |-> DEFAULT_NOTE_TAG_DEFINITIONS,
    checklistItems |-> <<>> ]

EmptyContext == [rollTimestamp |-> Null, sleepTimestamp |-> Null, pendingNotes |-> Null]

-----------------------------------------------------------------------------
(* Array helpers *)

\* arr.map((x, i) => i === index ? v : x); an absent index equals no i
MapAt(arr, event, v) ==
  [i \in 1..Len(arr) |->
     IF "index" \in DOMAIN event /\ event.index = i - 1 THEN v ELSE arr[i]]

\* arr.filter((_, i) => i !== index)
FilterAt(arr, event) ==
  IF "index" \in DOMAIN event /\ event.index \in 0..(Len(arr) - 1)
  THEN SubSeq(arr, 1, event.index) \o SubSeq(arr, event.index + 2, Len(arr))
  ELSE arr

\* the ascending 0-based indices i with flags[i] true (forEach + push)
RECURSIVE ActiveIndices(_, _)
ActiveIndices(flags, i) ==
  IF i > Len(flags) THEN <<>>
  ELSE (IF flags[i] THEN <<i - 1>> ELSE <<>>) \o ActiveIndices(flags, i + 1)

IsPrefix(s, t) == Len(s) <= Len(t) /\ SubSeq(t, 1, Len(s)) = s

Front(s) == SubSeq(s, 1, Len(s) - 1)
Last(s) == s[Len(s)]

-----------------------------------------------------------------------------
(* applyEvent / replayEvents *)

\* what applyEvent leaves in the replay context it was given
contextAfter(ctx, event) ==
  CASE event.type = "ROLL_TONIGHT" -> [ctx EXCEPT !.rollTimestamp = Some(event.timestamp)]
    [] event.type = "MARK_ASLEEP" -> [ctx EXCEPT !.sleepTimestamp = Some(event.timestamp)]
    [] OTHER -> ctx

\* a variant that takes the sleep date from the replay context when one is given
sleepDateFromContext(pending, ctx) ==
  IF ctx # Null /\ ctx[1].sleepTimestamp # Null THEN ctx[1].sleepTimestamp[1] ELSE pending.date

\* sleepDate of the observation RECORD_SCORE builds
sleepDateOf(pending, ctx) == pending.date

\* a variant of the default branch that ignores the event
unknownEventIgnored(st, event) == Ok(st)

\* the default branch of the switch
unknownEvent(st, event) == Thrown

\* a variant of CANCEL_PENDING that also drops the last observation
cancelDropsObservation(st) ==
  [st EXCEPT !.pendingNight = Null,
             !.observations = IF @ = <<>> THEN @ ELSE Front(@)]

cancelPendingState(st) == [st EXCEPT !.pendingNight = Null]

\* a variant of RECORD_SCORE that builds an observation without a pending night
recordWithoutPending(st, event) ==
  Ok([st EXCEPT !.observations = Append(@,
        [ nightDate |-> event.timestamp, sleepDate |-> event.timestamp,
          recordDate |-> event.timestamp, activeInterventions |-> <<>>,
          score |-> event.score, notes |-> event.notes ])])

recordScoreNoPending(st, event) == Ok(st)

\* a variant of TOGGLE_PENDING_INTERVENTION that inverts the stored flag and
\* ignores event.active
toggledPendingInverting(pending, event) ==
  [pending EXCEPT !.interventions =
     [i \in 1..Len(@) |->
        IF "index" \in DOMAIN event /\ event.index = i - 1 THEN ~@[i] ELSE @[i]]]

\* { ...state.pendingNight, interventions: interventions.map((v, i) =>
\*     i === event.index ? event.active : v) }
toggledPending(pending, event) ==
  [pending EXCEPT !.interventions = MapAt(@, event, event.active)]

\* a variant of MARK_ASLEEP with the branches of the conditional swapped
markedAsleepSwapped(pendingNight) ==
  IF pendingNight # Null THEN Null ELSE pendingNight

\* state.pendingNight ? { ...state.pendingNight, asleep: true } : null
markedAsleep(pendingNight) ==
  IF pendingNight # Null THEN Some([pendingNight[1] EXCEPT !.asleep = TRUE]) ELSE Null

\* interventions.map((int, i) => i === index ? { ...int, name: newName } : int)
renamedAt(ints, event) ==
  [i \in 1..Len(ints) |->
     IF "index" \in DOMAIN event /\ event.index = i - 1
     THEN [name |-> event.newName, disabled |-> ints[i].disabled] ELSE ints[i]]

\* a variant that archives by deleting: the toggled intervention leaves the list
toggledAtRemoves(ints, event) ==
  IF "index" \in DOMAIN event /\ event.index \in 0..(Len(ints) - 1)
  THEN SubSeq(ints, 1, event.index) \o SubSeq(ints, event.index + 2, Len(ints))
  ELSE ints

\* interventions.map((int, i) => i === index ? { ...int, disabled: !int.disabled } : int)
toggledAt(ints, event) ==
  [i \in 1..Len(ints) |->
     IF "index" \in DOMAIN event /\ event.index = i - 1
     THEN [name |-> ints[i].name, disabled |-> ~ints[i].disabled] ELSE ints[i]]

\* a variant that accumulates the toggled label into the tag definitions
loggedAndApplied(st, event) ==
  IF "label" \in DOMAIN event
  THEN Ok([st EXCEPT !.noteTagDefinitions =
             Append(@, [label |-> event.label, description |-> event.label])])
  ELSE Ok(st)

\* CHECK_CHECKLIST_ITEM, TOGGLE_NOTE_TAG: logged, no derived state change
loggedOnly(st, event) == Ok(st)

\* a variant that puts the new observation first
observationPrepended(observations, observation) == <<observation>> \o observations

\* [...state.observations, observation]
observationAppended(observations, observation) == Append(observations, observation)

\* a variant that records 1-based positions
recordedActiveOneBased(pending) ==
  [k \in 1..Len(ActiveIndices(pending.interventions, 1)) |->
     ActiveIndices(pending.interventions, 1)[k] + 1]

\* activeInterventions of the observation: the indices of the true flags
recordedActive(pending) == ActiveIndices(pending.interventions, 1)

RECURSIVE applyEvent(_, _, _)
RECURSIVE replayFrom(_, _, _)

\* events.reduce((state, event) => applyEvent(state, event, ctx), start)
replayFrom(result, ctx, events) ==
  IF events = <<>> THEN result
  ELSE IF result = Thrown THEN Thrown
  ELSE replayFrom(applyEvent(result[1], Head(events), Some(ctx)),
                  contextAfter(ctx, Head(events)), Tail(events))

replayEvents(events) == replayFrom(Ok(DEFAULT_STATE), EmptyContext, events)

\* a variant of IMPORT_DATA that keeps the statistical config of the prior state
importedStateKeepsConfig(st, events) ==
  LET imported == replayEvents(events)
  IN IF imported = Thrown THEN Thrown
     ELSE Ok([imported[1] EXCEPT !.config = st.config])

\* IMPORT_DATA: the state of the embedded log, whatever the prior state
importedState(st, events) == replayEvents(events)

applyEvent(st, event, ctx) ==
  LET t == event.type IN
  CASE t = "INIT" -> Ok(event.state)
    [] t = "ADD_INTERVENTION" ->
         IF \E i \in DOMAIN st.interventions : st.interventions[i].name = event.name
         THEN Ok(st)
         ELSE Ok([st EXCEPT !.interventions =
                    Append(@, [name |-> event.name, disabled |-> FALSE])])
    [] t = "RENAME_INTERVENTION" ->
         IF \E i \in DOMAIN st.interventions : st.interventions[i].name = event.newName
         THEN Ok(st)
         ELSE Ok([st EXCEPT !.interventions = renamedAt(st.interventions, event)])
    [] t = "TOGGLE_INTERVENTION_DISABLED" ->
         Ok([st EXCEPT !.interventions = toggledAt(st.interventions, event)])
    [] t = "ADD_GROUP" -> Ok([st EXCEPT !.groups = Append(@, event.group)])
    [] t = "REMOVE_GROUP" -> Ok([st EXCEPT !.groups = FilterAt(@, event)])
    [] t = "UPDATE_GROUP" -> Ok([st EXCEPT !.groups = MapAt(@, event, event.group)])
    [] t = "ADD_NOTE_TAG" ->
         Ok([st EXCEPT !.noteTagDefinitions = Append(@, event.tag)])
    [] t = "UPDATE_NOTE_TAG" ->
         Ok([st EXCEPT !.noteTagDefinitions = MapAt(@, event, event.tag)])
    [] t = "ADD_CHECKLIST_ITEM" ->
         Ok([st EXCEPT !.checklistItems = Append(@, event.item)])
    [] t = "UPDATE_CHECKLIST_ITEM" ->
         Ok([st EXCEPT !.checklistItems = MapAt(@, event, event.item)])
    [] t = "REMOVE_CHECKLIST_ITEM" ->
         Ok([st EXCEPT !.checklistItems = FilterAt(@, event)])
    [] t = "ROLL_TONIGHT" ->
         Ok([st EXCEPT !.pendingNight =
               Some(IF "activeInterventions" \in DOMAIN event
                    THEN [ date |-> event.timestamp,
                           interventions |-> event.activeInterventions,
                           samples |-> event.samples,
                           asleep |-> FALSE ]
                    \* interventions: undefined
                    ELSE [ date |-> event.timestamp,
                           samples |-> event.samples,
                           asleep |-> FALSE ])])
    [] t = "TOGGLE_PENDING_INTERVENTION" ->
         IF st.pendingNight = Null THEN Ok(st)
         ELSE IF "interventions" \notin DOMAIN st.pendingNight[1]
              THEN Thrown   \* undefined.map: TypeError
              ELSE Ok([st EXCEPT !.pendingNight = Some(toggledPending(@[1], event))])
    [] t = "CHECK_CHECKLIST_ITEM" -> loggedOnly(st, event)
    [] t = "MARK_ASLEEP" -> Ok([st EXCEPT !.pendingNight = markedAsleep(st.pendingNight)])
    [] t = "TOGGLE_NOTE_TAG" -> loggedOnly(st, event)
    [] t = "RECORD_SCORE" ->
         IF st.pendingNight = Null THEN recordScoreNoPending(st, event)
         ELSE IF "interventions" \notin DOMAIN st.pendingNight[1]
              THEN Thrown   \* undefined.forEach: TypeError
              ELSE LET pending == st.pendingNight[1]
                       observation ==
                         [ nightDate |-> pending.date,
                           sleepDate |-> sleepDateOf(pending, ctx),
                           recordDate |-> event.timestamp,
                           activeInterventions |-> recordedActive(pending),
                           score |-> event.score,
                           notes |-> event.notes ]
                   IN Ok([st EXCEPT !.observations = observationAppended(@, observation),
                                    !.pendingNight = Null])
    [] t = "CANCEL_PENDING" -> Ok(cancelPendingState(st))
    [] t = "IMPORT_DATA" -> importedState(st, event.eventLog.events)
    [] t = "IMPORT_HISTORICAL" ->
         Ok([st EXCEPT !.interventions = event.interventions,
                       !.observations = event.observations,
                       !.pendingNight = Null])
    [] t = "UPDATE_CONFIG" ->
         Ok([st EXCEPT !.config =
               [ baseline |-> IF "baseline" \in DOMAIN event.config
                              THEN event.config.baseline ELSE @.baseline,
                 tau |-> IF "tau" \in DOMAIN event.config
                         THEN event.config.tau ELSE @.tau,
                 sigma |-> IF "sigma" \in DOMAIN event.config
                           THEN event.config.sigma ELSE @.sigma ]])
    [] OTHER -> unknownEvent(st, event)

\* a variant in which ADD_INTERVENTION pushes onto state.interventions in place,
\* so the array of DEFAULT_STATE grows until an event replaces the array
sharedAfterInPlacePush(shared, events) ==
  LET replaces == {"INIT", "RENAME_INTERVENTION", "TOGGLE_INTERVENTION_DISABLED",
                   "IMPORT_DATA", "IMPORT_HISTORICAL"}
      stops == {i \in 1..Len(events) : events[i].type \in replaces}
      k == IF stops = {} THEN Len(events)
           ELSE (CHOOSE i \in stops : \A j \in stops : i <= j) - 1
      r == replayFrom(Ok(shared), EmptyContext, SubSeq(events, 1, k))
  IN IF r = Thrown THEN shared ELSE [shared EXCEPT !.interventions = r[1].interventions]

\* DEFAULT_STATE after a replay: every case of applyEvent returns a new object
\* (spread) or a payload of the event and assigns into nothing it was given
sharedAfterReplay(shared, events) == shared

\* a variant that stamps the log with a marker event on every call
migrateLogStamped(log) ==
  [log EXCEPT !.events = Append(@, [type |-> "UPDATE_CONFIG", timestamp |-> 0,
                                    config |-> [baseline |-> 690]])]

\* migrateLog: v1 is current, no migrations yet
migrateLog(log) == log

-----------------------------------------------------------------------------
(* Inputs: payloads the events carry *)

NotesA == [tags |-> <<[label |-> "nightmares", value |-> TRUE]>>, text |-> "late"]

TagA == [label |-> "coffee", description |-> "had coffee"]
ItemA == [label |-> "brush", description |-> "brush teeth"]
ItemB == [label |-> "read", description |-> "read a book"]
GroupA == [name |-> "g", interventionIndices |-> <<0, 1>>]
GroupB == [name |-> "h", interventionIndices |-> <<1, 0>>]
GroupC == [name |-> "k", interventionIndices |-> <<1, 2>>]

ObservationA ==
  [ nightDate |-> 10, sleepDate |-> 10, recordDate |-> 10,
    activeInterventions |-> <<0>>, score |-> 80 ]

\* the state an INIT event of a migrated snapshot carries
SnapshotState ==
  [ interventions |-> <<[name |-> "a", disabled |-> FALSE]>>,
    observations |-> <<ObservationA>>,
    pendingNight |-> Some([date |-> 20, interventions |-> <<TRUE>>,
                           samples |-> <<1>>, asleep |-> FALSE]),
    groups |-> <<>>,
    config |-> [baseline |-> 700, tau |-> 25, sigma |-> 120],
    noteTagDefinitions |-> DEFAULT_NOTE_TAG_DEFINITIONS,
    checklistItems |-> <<>> ]

\* an exported log: one intervention and a pending night
ImportedLog ==
  [ version |-> CURRENT_VERSION,
    events |-> << [type |-> "ADD_INTERVENTION", timestamp |-> 30, name |-> "b"],
                  [type |-> "ROLL_TONIGHT", timestamp |-> 31,
                   samples |-> <<2>>, activeInterventions |-> <<TRUE>>] >> ]

\* a log with an event of a type the catalog does not have
CorruptLog ==
  [ version |-> CURRENT_VERSION,
    events |-> << [type |-> "ADD_INTERVENTION", timestamp |-> 40, name |-> "a"],
                  [type |-> "REMOVE_INTERVENTION", timestamp |-> 41, index |-> 0] >> ]

\* a log whose only event imports the exported log, and whose night is then recorded
NestedLog ==
  [ version |-> CURRENT_VERSION,
    events |-> << [type |-> "IMPORT_DATA", timestamp |-> 50, eventLog |-> ImportedLog],
                  [type |-> "MARK_ASLEEP", timestamp |-> 51],
                  [type |-> "RECORD_SCORE", timestamp |-> 52, score |-> 60, notes |-> NotesA] >> ]

\* a log that imports the corrupt log
NestedCorruptLog ==
  [ version |-> CURRENT_VERSION,
    events |-> << [type |-> "IMPORT_DATA", timestamp |-> 60, eventLog |-> CorruptLog] >> ]

\* the events of the catalog, with well-formed payloads
CatalogEvents(t) ==
  { [type |-> "INIT", timestamp |-> t, state |-> SnapshotState] }
  \cup { [type |-> "ADD_INTERVENTION", timestamp |-> t, name |-> n] : n \in InterventionNames }
  \cup { [type |-> "RENAME_INTERVENTION", timestamp |-> t, index |-> 0, newName |-> n] :
            n \in {"b", "c"} }
  \cup { [type |-> "TOGGLE_INTERVENTION_DISABLED", timestamp |-> t, index |-> 0] }
  \cup { [type |-> "ADD_GROUP", timestamp |-> t, group |-> GroupA] }
  \cup { [type |-> "REMOVE_GROUP", timestamp |-> t, index |-> 0] }
  \cup { [type |-> "UPDATE_GROUP", timestamp |-> t, index |-> 0, group |-> GroupB] }
  \cup { [type |-> "ADD_NOTE_TAG", timestamp |-> t, tag |-> TagA] }
  \cup { [type |-> "UPDATE_NOTE_TAG", timestamp |-> t, index |-> 1, tag |-> TagA] }
  \cup { [type |-> "ADD_CHECKLIST_ITEM", timestamp |-> t, item |-> ItemA] }
  \cup { [type |-> "UPDATE_CHECKLIST_ITEM", timestamp |-> t, index |-> 0, item |-> ItemB] }
  \cup { [type |-> "REMOVE_CHECKLIST_ITEM", timestamp |-> t, index |-> 0] }
  \cup { [type |-> "ROLL_TONIGHT", timestamp |-> t, samples |-> <<2, 0>>,
          activeInterventions |-> <<TRUE, FALSE>>] }
  \cup { [type |-> "TOGGLE_PENDING_INTERVENTION", timestamp |-> t, index |-> i, active |-> b] :
            i \in {0, 1}, b \in {TRUE} }
  \cup { [type |-> "CHECK_CHECKLIST_ITEM", timestamp |-> t, index |-> 0,
          label |-> "brush", checked |-> TRUE] }
  \cup { [type |-> "MARK_ASLEEP", timestamp |-> t] }
  \cup { [type |-> "TOGGLE_NOTE_TAG", timestamp |-> t, label |-> "nightmares", checked |-> TRUE] }
  \cup { [type |-> "RECORD_SCORE", timestamp |-> t, score |-> 80, notes |-> NotesA] }
  \cup { [type |-> "CANCEL_PENDING", timestamp |-> t] }
  \cup { [type |-> "IMPORT_DATA", timestamp |-> t, eventLog |-> g] :
            g \in {ImportedLog, NestedLog} }
  \cup { [type |-> "IMPORT_HISTORICAL", timestamp |-> t,
          interventions |-> <<[name |-> "b", disabled |-> FALSE]>>,
          observations |-> <<ObservationA>>] }
  \cup { [type |-> "UPDATE_CONFIG", timestamp |-> t, config |-> [baseline |-> 720]] }

\* events whose type is outside the catalog, at the top level or in an embedded log
UnknownEvents(t) ==
  { [type |-> "REMOVE_INTERVENTION", timestamp |-> t, index |-> 0],
    [type |-> "IMPORT_DATA", timestamp |-> t, eventLog |-> CorruptLog],
    [type |-> "IMPORT_DATA", timestamp |-> t, eventLog |-> NestedCorruptLog] }

\* events of a known type whose payload lacks a required field or indexes outside the list
MalformedEvents(t) ==
  { [type |-> "RENAME_INTERVENTION", timestamp |-> t, newName |-> "c"],
    [type |-> "ROLL_TONIGHT", timestamp |-> t, samples |-> <<2, 0>>],
    [type |-> "TOGGLE_INTERVENTION_DISABLED", timestamp |-> t, index |-> 7] }

CatalogTypes ==
  { "INIT", "ADD_INTERVENTION", "RENAME_INTERVENTION", "TOGGLE_INTERVENTION_DISABLED",
    "ADD_GROUP", "REMOVE_GROUP", "UPDATE_GROUP", "ADD_NOTE_TAG", "UPDATE_NOTE_TAG",
    "ADD_CHECKLIST_ITEM", "UPDATE_CHECKLIST_ITEM", "REMOVE_CHECKLIST_ITEM",
    "ROLL_TONIGHT", "TOGGLE_PENDING_INTERVENTION", "CHECK_CHECKLIST_ITEM", "MARK_ASLEEP",
    "TOGGLE_NOTE_TAG", "RECORD_SCORE", "CANCEL_PENDING", "IMPORT_DATA",
    "IMPORT_HISTORICAL", "UPDATE_CONFIG" }

-----------------------------------------------------------------------------
(* Replay harness: folds arbitrary event sequences, one event at a time.    *)
(* Each step appends an event, applies it to the incremental state without  *)
(* a replay context and runs replayEvents on the whole sequence.            *)

\* sequences the harness starts from
ReplaySeeds ==
  { <<>>,
    << [type |-> "ADD_INTERVENTION", timestamp |-> 1, name |-> "a"],
       [type |-> "ADD_INTERVENTION", timestamp |-> 2, name |-> "b"] >>,
    << [type |-> "ADD_INTERVENTION", timestamp |-> 1, name |-> "a"],
       [type |-> "ROLL_TONIGHT", timestamp |-> 2, samples |-> <<1>>,
        activeInterventions |-> <<TRUE>>] >>,
    << [type |-> "ADD_INTERVENTION", timestamp |-> 1, name |-> "a"],
       [type |-> "ADD_INTERVENTION", timestamp |-> 2, name |-> "b"],
       [type |-> "ROLL_TONIGHT", timestamp |-> 3, samples |-> <<1, 0>>,
        activeInterventions |-> <<TRUE, FALSE>>],
       [type |-> "TOGGLE_PENDING_INTERVENTION", timestamp |-> 4, index |-> 0,
        active |-> FALSE],
       [type |-> "MARK_ASLEEP", timestamp |-> 5] >> }

\* applyEvent(... applyEvent(start, e1) ..., en), each call without a replay context
RECURSIVE applyEach(_, _)
applyEach(result, events) ==
  IF events = <<>> THEN result
  ELSE IF result = Thrown THEN Thrown
  ELSE applyEach(applyEvent(result[1], Head(events), Null), Tail(events))

HarnessInit(seed) ==
  /\ invoked = <<>>
  /\ returned = <<>>
  /\ isAdding = FALSE
  /\ editingIndex = <<>>
  /\ groupName = ""
  /\ selectedInterventions = {}
  /\ evs = seed
  /\ acc = applyEach(Ok(DefaultStateValue), seed)
  /\ replays = [i \in 1..(Len(seed) + 1) |-> replayEvents(SubSeq(seed, 1, i - 1))]

Fold(e) ==
  /\ now - StartTime < MaxReplayLen
  /\ now' = now + 1
  /\ evs' = Append(evs, e)
  /\ acc' = IF acc = Thrown THEN Thrown ELSE applyEvent(acc[1], e, Null)
  /\ replays' = Append(replays, replayEvents(Append(evs, e)))
  /\ DEFAULT_STATE' = sharedAfterReplay(DEFAULT_STATE, Append(evs, e))
  /\ UNCHANGED <<state, eventLogRef, storage, pc, inflight, queue, libVars, uiVars>>

FoldCatalog == \E e \in CatalogEvents(now) : Fold(e)
FoldUnknown == \E e \in UnknownEvents(now) : Fold(e)
FoldMalformed == \E e \in MalformedEvents(now) : Fold(e)

NextReplay == FoldCatalog \/ FoldUnknown \/ FoldMalformed

-----------------------------------------------------------------------------
(* The hook *)

\* logs an earlier session of the hook left in storage
StoredLogs ==
  { <<>>,
    << [type |-> "ADD_INTERVENTION", timestamp |-> 1, name |-> "a"],
       [type |-> "ADD_INTERVENTION", timestamp |-> 2, name |-> "b"],
       [type |-> "ADD_GROUP", timestamp |-> 3, group |-> GroupA] >>,
    << [type |-> "ADD_INTERVENTION", timestamp |-> 1, name |-> "a"],
       [type |-> "ADD_INTERVENTION", timestamp |-> 2, name |-> "b"],
       [type |-> "ROLL_TONIGHT", timestamp |-> 3, samples |-> <<1, 0>>,
        activeInterventions |-> <<TRUE, FALSE>>] >>,
    << [type |-> "ADD_INTERVENTION", timestamp |-> 1, name |-> "a"],
       [type |-> "ADD_CHECKLIST_ITEM", timestamp |-> 2, item |-> ItemA],
       [type |-> "ROLL_TONIGHT", timestamp |-> 3, samples |-> <<1>>,
        activeInterventions |-> <<TRUE>>],
       [type |-> "RECORD_SCORE", timestamp |-> 4, score |-> 60, notes |-> NotesA] >>,
    \* three interventions, two groups that share the second one
    << [type |-> "ADD_INTERVENTION", timestamp |-> 1, name |-> "a"],
       [type |-> "ADD_INTERVENTION", timestamp |-> 2, name |-> "b"],
       [type |-> "ADD_INTERVENTION", timestamp |-> 3, name |-> "c"],
       [type |-> "ADD_GROUP", timestamp |-> 4, group |-> GroupA],
       [type |-> "ADD_GROUP", timestamp |-> 5, group |-> GroupC] >>,
    \* a night rolled for the only intervention, which was disabled afterwards
    << [type |-> "ADD_INTERVENTION", timestamp |-> 1, name |-> "a"],
       [type |-> "ROLL_TONIGHT", timestamp |-> 2, samples |-> <<1>>,
        activeInterventions |-> <<TRUE>>],
       [type |-> "TOGGLE_INTERVENTION_DISABLED", timestamp |-> 3, index |-> 0] >> }

\* values a Thompson sample takes in the model
SampleValues == {0, 1}

\* milliseconds of a day
DayMs == 86400000

\* a legacy snapshot pasted as a full backup (dense observations, no config)
LegacySnapshot ==
  [ interventions |-> <<[name |-> "a", disabled |-> FALSE], [name |-> "c", disabled |-> TRUE]>>,
    observations |-> <<[date |-> 5, interventions |-> <<TRUE, FALSE>>, score |-> 75]>> ]

\* a historical import: interventions by name, nights aligned to them
HistoricalData ==
  [ interventions |-> <<"b", "c">>,
    nights |-> << [interventions |-> <<TRUE, FALSE>>, score |-> 70, date |-> 7],
                  [interventions |-> <<TRUE, TRUE>>, score |-> 65] >> ]

\* a historical import whose intervention list repeats a name
HistoricalRepeated ==
  [ interventions |-> <<"c", "c">>,
    nights |-> << [interventions |-> <<FALSE, TRUE>>, score |-> 55, date |-> 8] >> ]

HistoricalInputs == {HistoricalData, HistoricalRepeated}

\* loadEventLog(): the stored log
loadEventLog == storage

\* saveEventLog(log): the stored log becomes a copy of log
saveEventLog(log) == log

\* a variant that persists nothing
saveSkipped(current, log) == current

\* what storage holds after appendEvent called saveEventLog(eventLogRef.current)
storedAfterSave(current, log) == saveEventLog(log)

\* a variant of the reducer that keeps the pending night over a historical import
reducerKeepsPending(st, event) ==
  IF event.type = "IMPORT_HISTORICAL"
  THEN Ok([st EXCEPT !.interventions = event.interventions,
                     !.observations = event.observations])
  ELSE applyEvent(st, event, Null)

reducer(st, event) == applyEvent(st, event, Null)

\* the queued events reduced in order by one render
RECURSIVE reduceAll(_, _)
reduceAll(result, events) ==
  IF events = <<>> THEN result
  ELSE IF result = Thrown THEN Thrown
  ELSE reduceAll(reducer(result[1], Head(events)), Tail(events))

Init ==
  /\ DEFAULT_STATE = DefaultStateValue
  /\ HarnessInit(<<>>)
  /\ now = StartTime
  /\ \E seed \in StoredLogs : storage = [version |-> CURRENT_VERSION, events |-> seed]
  /\ eventLogRef = loadEventLog
  /\ state = replayEvents(eventLogRef.events)
  /\ pc = "idle"
  /\ inflight = Null
  /\ queue = <<>>

\* the rendered AppState the callbacks close over
Rendered == state[1]

\* a handler may start: the last one returned, its dispatch was rendered, nothing threw
Ready ==
  /\ pc = "idle"
  /\ queue = <<>>
  /\ state # Thrown
  /\ now - StartTime < MaxOps

\* appendEvent, first part: stamp the event and push it onto eventLogRef.current.events
appendEvent(partial, after) ==
  LET event == [k \in DOMAIN partial \cup {"timestamp"} |->
                  IF k = "timestamp" THEN now ELSE partial[k]]
  IN /\ inflight' = Some(event)
     /\ eventLogRef' = [eventLogRef EXCEPT !.events = Append(@, event)]
     /\ now' = now + 1
     /\ pc' = after
     /\ UNCHANGED <<state, storage, queue, DEFAULT_STATE, harnessVars, libVars, uiVars>>

\* appendEvent, second part: saveEventLog(eventLogRef.current)
Save ==
  /\ pc \in {"save", "saveImport"}
  /\ storage' = storedAfterSave(storage, eventLogRef)
  /\ pc' = IF pc = "save" THEN "dispatch" ELSE "dispatchImport"
  /\ UNCHANGED <<state, eventLogRef, inflight, queue, now, DEFAULT_STATE, harnessVars, libVars, uiVars>>

\* appendEvent, third part: dispatch(event)
Dispatch ==
  /\ pc \in {"dispatch", "dispatchImport"}
  /\ queue' = Append(queue, inflight[1])
  /\ inflight' = Null
  /\ pc' = IF pc = "dispatch" THEN "idle" ELSE "replaceRef"
  /\ UNCHANGED <<state, eventLogRef, storage, now, DEFAULT_STATE, harnessVars, libVars, uiVars>>

\* a variant that replaces the log by the imported one
logReplacedByImport(log) ==
  [version |-> CURRENT_VERSION, events |-> Last(log.events).eventLog.events]

\* the log importData installs after a full-backup import of an event log
logAfterImport(log) == [version |-> CURRENT_VERSION, events |-> log.events]

\* importData, full backup of an event log, after appendEvent returned:
\* a new eventLogRef.current and a second saveEventLog
ReplaceLogRef ==
  /\ pc = "replaceRef"
  /\ eventLogRef' = logAfterImport(eventLogRef)
  /\ storage' = saveEventLog(logAfterImport(eventLogRef))
  /\ pc' = "idle"
  /\ UNCHANGED <<state, inflight, queue, now, DEFAULT_STATE, harnessVars, libVars, uiVars>>

\* React renders: the reducer runs over the dispatched events
Render ==
  /\ pc = "idle"
  /\ queue # <<>>
  /\ state' = reduceAll(state, queue)
  /\ queue' = <<>>
  /\ UNCHANGED <<eventLogRef, storage, pc, inflight, now, DEFAULT_STATE, harnessVars, libVars, uiVars>>

\* the page is closed or reloaded at any point; init() runs again
\* (the clock keeps running)
Reload ==
  /\ eventLogRef' = loadEventLog
  /\ state' = replayEvents(loadEventLog.events)
  /\ DEFAULT_STATE' = sharedAfterReplay(DEFAULT_STATE, loadEventLog.events)
  /\ pc' = "idle"
  /\ inflight' = Null
  /\ queue' = <<>>
  /\ UNCHANGED <<storage, now, harnessVars, libVars, uiVars>>

Names(st) == {st.interventions[i].name : i \in DOMAIN st.interventions}
Indices(arr) == 0..(Len(arr) - 1)

addIntervention ==
  /\ Ready
  /\ \E name \in InterventionNames :
       /\ name \notin Names(Rendered)
       /\ appendEvent([type |-> "ADD_INTERVENTION", name |-> name], "save")

renameIntervention ==
  /\ Ready
  /\ \E index \in Indices(Rendered.interventions), newName \in {"c"} :
       /\ newName \notin Names(Rendered)
       /\ appendEvent([type |-> "RENAME_INTERVENTION", index |-> index,
                       newName |-> newName], "save")

toggleInterventionDisabled ==
  /\ Ready
  /\ \E index \in Indices(Rendered.interventions) :
       appendEvent([type |-> "TOGGLE_INTERVENTION_DISABLED", index |-> index], "save")

\* the group manager offers the interventions of the rendered list
addGroup ==
  /\ Ready
  /\ \E group \in {GroupA} :
       /\ \A i \in DOMAIN group.interventionIndices :
            group.interventionIndices[i] \in Indices(Rendered.interventions)
       /\ appendEvent([type |-> "ADD_GROUP", group |-> group], "save")

removeGroup ==
  /\ Ready
  /\ \E index \in Indices(Rendered.groups) :
       appendEvent([type |-> "REMOVE_GROUP", index |-> index], "save")

updateGroup ==
  /\ Ready
  /\ \E index \in Indices(Rendered.groups), group \in {GroupB} :
       appendEvent([type |-> "UPDATE_GROUP", index |-> index, group |-> group], "save")

addNoteTag ==
  /\ Ready
  /\ appendEvent([type |-> "ADD_NOTE_TAG", tag |-> TagA], "save")

updateNoteTag ==
  /\ Ready
  /\ \E index \in {1} :
       appendEvent([type |-> "UPDATE_NOTE_TAG", index |-> index, tag |-> TagA], "save")

addChecklistItem ==
  /\ Ready
  /\ appendEvent([type |-> "ADD_CHECKLIST_ITEM", item |-> ItemA], "save")

updateChecklistItem ==
  /\ Ready
  /\ \E index \in Indices(Rendered.checklistItems) :
       appendEvent([type |-> "UPDATE_CHECKLIST_ITEM", index |-> index, item |-> ItemB], "save")

removeChecklistItem ==
  /\ Ready
  /\ \E index \in Indices(Rendered.checklistItems) :
       appendEvent([type |-> "REMOVE_CHECKLIST_ITEM", index |-> index], "save")

\* first loop over a group: the enabled member with the largest sample, first found wins;
\* best is Null for bestIdx = -1, bestSample = -Infinity
RECURSIVE bestOfGroup(_, _, _, _, _)
bestOfGroup(indices, k, samples, interventions, best) ==
  IF k > Len(indices) THEN best
  ELSE LET idx == indices[k]
           better == /\ idx < Len(samples)
                     /\ ~interventions[idx + 1].disabled
                     /\ (best = Null \/ samples[idx + 1] > best[1].sample)
       IN bestOfGroup(indices, k + 1, samples, interventions,
                      IF better THEN Some([idx |-> idx, sample |-> samples[idx + 1]])
                      ELSE best)

\* a variant that activates the best member of a group whatever its sample
bestActivatedAlways(best, interventions) == best # Null

\* bestIdx !== -1 && bestSample > 0 && !state.interventions[bestIdx].disabled
bestActivated(best, interventions) ==
  /\ best # Null
  /\ best[1].sample > 0
  /\ ~interventions[best[1].idx + 1].disabled

\* the body of the loop over the groups, applied to the groups from the g-th on
RECURSIVE applyGroups(_, _, _, _, _)
applyGroups(groups, g, samples, interventions, active) ==
  IF g > Len(groups) THEN active
  ELSE LET indices == groups[g].interventionIndices
           members == {indices[k] : k \in DOMAIN indices}
           best == bestOfGroup(indices, 1, samples, interventions, Null)
           cleared == [i \in 1..Len(active) |->
                         IF (i - 1) \in members THEN FALSE ELSE active[i]]
           chosen == IF bestActivated(best, interventions)
                     THEN [cleared EXCEPT ![best[1].idx + 1] = TRUE]
                     ELSE cleared
       IN applyGroups(groups, g + 1, samples, interventions, chosen)

\* a roll that skips the loop over the groups
rolledIgnoringGroups(samples, st) ==
  [i \in 1..Len(samples) |-> samples[i] > 0 /\ ~st.interventions[i].disabled]

\* the activeInterventions vector rollTonight emits for a sample vector
rolledActive(samples, st) ==
  applyGroups(st.groups, 1, samples, st.interventions,
              [i \in 1..Len(samples) |-> samples[i] > 0 /\ ~st.interventions[i].disabled])

\* a variant without the precondition
rollNeverRefused(st) == FALSE

\* enabledCount === 0: alert and return
rollRefused(st) ==
  Cardinality({i \in DOMAIN st.interventions : ~st.interventions[i].disabled}) = 0

\* sampleFromPosterior draws one value per intervention of the rendered posterior
rollTonight ==
  /\ Ready
  /\ ~rollRefused(Rendered)
  /\ \E samples \in [1..Len(Rendered.interventions) -> SampleValues] :
       appendEvent([type |-> "ROLL_TONIGHT", samples |-> samples,
                    activeInterventions |-> rolledActive(samples, Rendered)], "save")

togglePendingIntervention ==
  /\ Ready
  /\ \E index \in Indices(Rendered.interventions), active \in BOOLEAN :
       appendEvent([type |-> "TOGGLE_PENDING_INTERVENTION", index |-> index,
                    active |-> active], "save")

checkChecklistItem ==
  /\ Ready
  /\ \E index \in Indices(Rendered.checklistItems) :
       appendEvent([type |-> "CHECK_CHECKLIST_ITEM", index |-> index,
                    label |-> Rendered.checklistItems[index + 1].label,
                    checked |-> TRUE], "save")

toggleNoteTag ==
  /\ Ready
  /\ appendEvent([type |-> "TOGGLE_NOTE_TAG", label |-> "nightmares", checked |-> TRUE], "save")

markAsleep ==
  /\ Ready
  /\ appendEvent([type |-> "MARK_ASLEEP"], "save")

recordScore ==
  /\ Ready
  /\ Rendered.pendingNight # Null
  /\ \E score \in {80} :
       appendEvent([type |-> "RECORD_SCORE", score |-> score, notes |-> NotesA], "save")

cancelPending ==
  /\ Ready
  /\ appendEvent([type |-> "CANCEL_PENDING"], "save")

\* importData(imported, true) with an event log (version and events present)
importEventLog ==
  /\ Ready
  /\ \E imported \in {ImportedLog, CorruptLog} :
       appendEvent([type |-> "IMPORT_DATA", eventLog |-> migrateLog(imported)], "saveImport")

\* data.field || fallback
OrElse(data, field, fallback) == IF field \in DOMAIN data THEN data[field] ELSE fallback

\* importData(imported, true) with an old AppState: wrapped in an INIT event
importLegacy ==
  /\ Ready
  /\ \E data \in {LegacySnapshot} :
       LET initLog ==
             [ version |-> CURRENT_VERSION,
               events |-> << [ type |-> "INIT",
                               timestamp |-> now,
                               state |->
                                 [ interventions |-> OrElse(data, "interventions", <<>>),
                                   observations |-> OrElse(data, "observations", <<>>),
                                   pendingNight |-> OrElse(data, "pendingNight", Null),
                                   groups |-> OrElse(data, "groups", <<>>),
                                   config |-> OrElse(data, "config", Rendered.config),
                                   noteTagDefinitions |->
                                     OrElse(data, "noteTagDefinitions",
                                            DEFAULT_NOTE_TAG_DEFINITIONS),
                                   checklistItems |-> OrElse(data, "checklistItems", <<>>) ] ] >> ]
       IN appendEvent([type |-> "IMPORT_DATA", eventLog |-> initLog], "save")

\* mergedInterventions: the rendered interventions, then each imported one whose name
\* the rendered list does not have
RECURSIVE mergeInterventions(_, _, _, _)
mergeInterventions(merged, existingNames, newInterventions, k) ==
  IF k > Len(newInterventions) THEN merged
  ELSE mergeInterventions(
         IF newInterventions[k].name \notin existingNames
         THEN Append(merged, newInterventions[k]) ELSE merged,
         existingNames, newInterventions, k + 1)

\* merged.findIndex(m => m.name === name): 0-based, -1 when absent
findIndex(merged, name) ==
  IF \E i \in DOMAIN merged : merged[i].name = name
  THEN (CHOOSE i \in DOMAIN merged :
          /\ merged[i].name = name
          /\ \A j \in DOMAIN merged : merged[j].name = name => i <= j) - 1
  ELSE -1

\* night.interventions.forEach: pushes indexMap[i] for each true flag mapped to an index
\* (flags are aligned to the imported interventions)
RECURSIVE mappedActive(_, _, _)
mappedActive(flags, indexMap, i) ==
  IF i > Len(flags) THEN <<>>
  ELSE (IF flags[i] /\ indexMap[i] # -1 THEN <<indexMap[i]>> ELSE <<>>)
       \o mappedActive(flags, indexMap, i + 1)

\* a variant that keeps the imported observations only
importedObservationsOnly(existing, imported) == imported

\* allObservations: [...state.observations, ...newObservations]
allObservations(existing, imported) == existing \o imported

\* the IMPORT_HISTORICAL payload importData builds from the rendered state
historicalPayload(data, st, clock) ==
  LET given == OrElse(data, "interventions", <<>>)
      newInterventions == [k \in 1..Len(given) |-> [name |-> given[k], disabled |-> FALSE]]
      merged == mergeInterventions(st.interventions, Names(st), newInterventions, 1)
      indexMap == [k \in 1..Len(newInterventions) |-> findIndex(merged, newInterventions[k].name)]
      nights == OrElse(data, "nights", <<>>)
      dateOf(k) == IF "date" \in DOMAIN nights[k] THEN nights[k].date
                   ELSE clock - (Len(nights) - (k - 1)) * DayMs
      newObservations ==
        [k \in 1..Len(nights) |->
           [ nightDate |-> dateOf(k), sleepDate |-> dateOf(k), recordDate |-> dateOf(k),
             activeInterventions |-> mappedActive(nights[k].interventions, indexMap, 1),
             score |-> nights[k].score ]]
  IN [ type |-> "IMPORT_HISTORICAL",
       interventions |-> merged,
       observations |-> allObservations(st.observations, newObservations) ]

\* importData(imported): historical import
importHistorical ==
  /\ Ready
  /\ \E data \in HistoricalInputs :
       appendEvent(historicalPayload(data, Rendered, now), "save")

updateConfig ==
  /\ Ready
  /\ appendEvent([type |-> "UPDATE_CONFIG", config |-> [baseline |-> 720]], "save")

Next ==
  \/ addIntervention \/ renameIntervention \/ toggleInterventionDisabled
  \/ addGroup \/ removeGroup \/ updateGroup
  \/ addNoteTag \/ updateNoteTag
  \/ addChecklistItem \/ updateChecklistItem \/ removeChecklistItem
  \/ rollTonight \/ togglePendingIntervention \/ checkChecklistItem \/ toggleNoteTag
  \/ markAsleep \/ recordScore \/ cancelPending
  \/ importEventLog \/ importLegacy \/ importHistorical \/ updateConfig
  \/ Save \/ Dispatch \/ ReplaceLogRef \/ Render \/ Reload

Spec == Init /\ [][Next]_vars

-----------------------------------------------------------------------------
(* Callbacks invoked before React has rendered the previous dispatch: an event  *)
(* handler that calls two operations, or a FileReader callback that holds the   *)
(* importData of an earlier render. Each callback closes over the rendered      *)
(* state, not over the events still waiting in the reducer queue.               *)

\* a handler may start while dispatched events wait for the render
ReadyUnrendered ==
  /\ pc = "idle"
  /\ state # Thrown
  /\ now - StartTime < MaxOps

addInterventionUnrendered ==
  /\ ReadyUnrendered
  /\ \E name \in InterventionNames :
       /\ name \notin Names(Rendered)
       /\ appendEvent([type |-> "ADD_INTERVENTION", name |-> name], "save")

recordScoreUnrendered ==
  /\ ReadyUnrendered
  /\ Rendered.pendingNight # Null
  /\ \E score \in {80} :
       appendEvent([type |-> "RECORD_SCORE", score |-> score, notes |-> NotesA], "save")

importHistoricalUnrendered ==
  /\ ReadyUnrendered
  /\ \E data \in HistoricalInputs :
       appendEvent(historicalPayload(data, Rendered, now), "save")

NextUnrendered ==
  \/ addInterventionUnrendered \/ recordScoreUnrendered \/ importHistoricalUnrendered
  \/ Save \/ Dispatch \/ Render

SpecUnrendered == Init /\ [][NextUnrendered]_vars

-----------------------------------------------------------------------------
(* GroupManager: the panel through which groups are created, edited and deleted. *)
(* Its props groups and interventions are those of the rendered state; the panel *)
(* is modelled while it is open (closing it keeps the form as it is).            *)

\* the stored logs the panel starts from: four interventions, and no group, a group
\* with a name of its own, or a group with the name the user will type
ManagerSeeds ==
  LET four == << [type |-> "ADD_INTERVENTION", timestamp |-> 1, name |-> "a"],
                 [type |-> "ADD_INTERVENTION", timestamp |-> 2, name |-> "b"],
                 [type |-> "ADD_INTERVENTION", timestamp |-> 3, name |-> "c"],
                 [type |-> "ADD_INTERVENTION", timestamp |-> 4, name |-> "d"] >>
  IN { four,
       Append(four, [type |-> "ADD_GROUP", timestamp |-> 5,
                     group |-> [name |-> "h", interventionIndices |-> <<0, 1>>]]),
       Append(four, [type |-> "ADD_GROUP", timestamp |-> 5, group |-> GroupA]) }

\* what the user types into the name input
TypedNames == {"g"}

InitManager ==
  /\ DEFAULT_STATE = DefaultStateValue
  /\ HarnessInit(<<>>)
  /\ now = StartTime
  /\ \E seed \in ManagerSeeds : storage = [version |-> CURRENT_VERSION, events |-> seed]
  /\ eventLogRef = loadEventLog
  /\ state = replayEvents(eventLogRef.events)
  /\ pc = "idle"
  /\ inflight = Null
  /\ queue = <<>>

\* the form is rendered: isAdding || editingIndex !== null
FormShown == isAdding \/ editingIndex # Null

\* getInterventionGroup(index): the name of the first group that includes index
getInterventionGroup(index) ==
  LET groups == Rendered.groups
      holding == {g \in DOMAIN groups :
                    \E k \in DOMAIN groups[g].interventionIndices :
                      groups[g].interventionIndices[k] = index}
  IN IF holding = {} THEN Null
     ELSE Some([text |-> groups[CHOOSE g \in holding : \A h \in holding : g <= h].name])

\* groups[editingIndex]?.name
editedName ==
  IF editingIndex # Null /\ editingIndex[1] \in Indices(Rendered.groups)
  THEN Some([text |-> Rendered.groups[editingIndex[1] + 1].name])
  ELSE Null

\* a variant that admits one member
canSaveOne == groupName # "" /\ Cardinality(selectedInterventions) >= 1

\* canSave = groupName.trim() && selectedCount >= 2
canSave == groupName # "" /\ Cardinality(selectedInterventions) >= 2

\* canSelectIntervention(index)
canSelectIntervention(index) ==
  LET existingGroup == getInterventionGroup(index)
  IN IF existingGroup = Null THEN TRUE
     ELSE editingIndex # Null /\ editedName = existingGroup

\* Object.keys(selectedInterventions) filtered and parsed: the ticked indices, ascending
RECURSIVE Ascend(_)
Ascend(S) ==
  IF S = {} THEN <<>>
  ELSE LET m == CHOOSE x \in S : \A y \in S : x <= y
       IN <<m>> \o Ascend(S \ {m})

startAdding ==
  /\ Ready
  /\ ~FormShown
  /\ Len(Rendered.interventions) >= 2
  /\ isAdding' = TRUE
  /\ editingIndex' = Null
  /\ groupName' = ""
  /\ selectedInterventions' = {}
  /\ UNCHANGED <<state, eventLogRef, storage, pc, inflight, queue, now, DEFAULT_STATE,
                 harnessVars, libVars>>

startEditing ==
  /\ Ready
  /\ \E index \in Indices(Rendered.groups) :
       LET group == Rendered.groups[index + 1]
       IN /\ editingIndex' = Some(index)
          /\ isAdding' = FALSE
          /\ groupName' = group.name
          /\ selectedInterventions' =
               {group.interventionIndices[k] : k \in DOMAIN group.interventionIndices}
  /\ UNCHANGED <<state, eventLogRef, storage, pc, inflight, queue, now, DEFAULT_STATE,
                 harnessVars, libVars>>

cancelForm ==
  /\ Ready
  /\ FormShown
  /\ isAdding' = FALSE
  /\ editingIndex' = Null
  /\ groupName' = ""
  /\ selectedInterventions' = {}
  /\ UNCHANGED <<state, eventLogRef, storage, pc, inflight, queue, now, DEFAULT_STATE,
                 harnessVars, libVars>>

\* onChange of the name input
setGroupName ==
  /\ Ready
  /\ FormShown
  /\ \E name \in TypedNames : groupName' = name
  /\ UNCHANGED <<state, eventLogRef, storage, pc, inflight, queue, now, DEFAULT_STATE,
                 harnessVars, libVars, isAdding, editingIndex, selectedInterventions>>

\* onChange of a checkbox that is not disabled: toggleIntervention(index)
toggleIntervention ==
  /\ Ready
  /\ FormShown
  /\ \E index \in Indices(Rendered.interventions) :
       /\ canSelectIntervention(index)
       /\ LET existingGroup == getInterventionGroup(index)
          IN IF existingGroup # Null /\ editingIndex = Null
             THEN UNCHANGED selectedInterventions
             ELSE IF existingGroup # Null /\ editedName # existingGroup
             THEN UNCHANGED selectedInterventions
             ELSE selectedInterventions' =
                    IF index \in selectedInterventions
                    THEN selectedInterventions \ {index}
                    ELSE selectedInterventions \cup {index}
  /\ UNCHANGED <<state, eventLogRef, storage, pc, inflight, queue, now, DEFAULT_STATE,
                 harnessVars, libVars, isAdding, editingIndex, groupName>>

\* the callback of the hook the panel was given: appendEvent(partial)
hookCalled(partial) ==
  LET event == [k \in DOMAIN partial \cup {"timestamp"} |->
                  IF k = "timestamp" THEN now ELSE partial[k]]
  IN /\ inflight' = Some(event)
     /\ eventLogRef' = [eventLogRef EXCEPT !.events = Append(@, event)]
     /\ now' = now + 1
     /\ pc' = "save"
     /\ UNCHANGED <<state, storage, queue, DEFAULT_STATE, harnessVars, libVars>>

\* click on the save button, which is disabled unless canSave
handleSave ==
  /\ Ready
  /\ FormShown
  /\ canSave
  /\ LET indices == Ascend(selectedInterventions)
         group == [name |-> groupName, interventionIndices |-> indices]
     IN /\ groupName # ""
        /\ Len(indices) # 0
        /\ IF editingIndex # Null
           THEN hookCalled([type |-> "UPDATE_GROUP", index |-> editingIndex[1],
                            group |-> group])
           ELSE hookCalled([type |-> "ADD_GROUP", group |-> group])
  /\ isAdding' = FALSE
  /\ editingIndex' = Null
  /\ groupName' = ""
  /\ selectedInterventions' = {}

\* click on the delete button of a group: onRemoveGroup(idx); the form stays as it is
deleteGroup ==
  /\ Ready
  /\ \E idx \in Indices(Rendered.groups) :
       hookCalled([type |-> "REMOVE_GROUP", index |-> idx])
  /\ UNCHANGED uiVars

NextManager ==
  \/ startAdding \/ startEditing \/ cancelForm \/ setGroupName \/ toggleIntervention
  \/ handleSave \/ deleteGroup
  \/ Save \/ Dispatch \/ Render

SpecManager == InitManager /\ [][NextManager]_vars

InitReplay ==
  /\ DEFAULT_STATE = DefaultStateValue
  /\ \E seed \in ReplaySeeds : HarnessInit(seed)
  /\ now = StartTime
  /\ storage = [version |-> CURRENT_VERSION, events |-> <<>>]
  /\ eventLogRef = loadEventLog
  /\ state = Ok(DefaultStateValue)
  /\ pc = "idle"
  /\ inflight = Null
  /\ queue = <<>>

SpecReplay == InitReplay /\ [][NextReplay]_vars

-----------------------------------------------------------------------------
(* Library calls: the pure functions of the repository, each called once on   *)
(* an input drawn from a bounded set                                           *)

\* the largest number of interventions (and matrix dimension) of a library call
MaxDim == 2

\* the sequences over S of length at most n
SeqsUpTo(S, n) == UNION {[1..m -> S] : m \in 0..n}

\* record r with field notes set to v
WithNotes(r, v) == [k \in DOMAIN r \cup {"notes"} |-> IF k = "notes" THEN v ELSE r[k]]

\* an element of an old interventions array that is a bare string
OldName(s) == [text |-> s]

\* typeof int === 'string'
IsString(int) == "text" \in DOMAIN int

\* a variant that keeps the dense positions 1-based
migrateOldObservationOneBased(obs) ==
  [ nightDate |-> obs.date, sleepDate |-> obs.date, recordDate |-> obs.date,
    activeInterventions |->
      IF "interventions" \in DOMAIN obs
      THEN [k \in 1..Len(ActiveIndices(obs.interventions, 1)) |->
              ActiveIndices(obs.interventions, 1)[k] + 1]
      ELSE <<>>,
    score |-> obs.score ]

migrateOldObservation(obs) ==
  LET observation ==
        [ nightDate |-> obs.date, sleepDate |-> obs.date, recordDate |-> obs.date,
          activeInterventions |->
            IF "interventions" \in DOMAIN obs
            THEN ActiveIndices(obs.interventions, 1) ELSE <<>>,
          score |-> obs.score ]
  IN IF "notes" \in DOMAIN obs THEN WithNotes(observation, obs.notes) ELSE observation

migrateOldInterventions(interventions) ==
  [i \in 1..Len(interventions) |->
     IF IsString(interventions[i])
     THEN [name |-> interventions[i].text, disabled |-> FALSE]
     ELSE interventions[i]]

\* migrateSnapshot, called when the clock reads clock
migrateSnapshot(snapshot, clock) ==
  LET old == OrElse(snapshot, "observations", <<>>)
      migratedState ==
        [ interventions |-> migrateOldInterventions(OrElse(snapshot, "interventions", <<>>)),
          observations |-> [k \in 1..Len(old) |-> migrateOldObservation(old[k])],
          pendingNight |-> OrElse(snapshot, "pendingNight", Null),
          groups |-> OrElse(snapshot, "groups", <<>>),
          config |-> OrElse(snapshot, "config", DEFAULT_STATE.config),
          noteTagDefinitions |->
            OrElse(snapshot, "noteTagDefinitions", DEFAULT_NOTE_TAG_DEFINITIONS),
          checklistItems |-> OrElse(snapshot, "checklistItems", <<>>) ]
  IN [ version |-> CURRENT_VERSION,
       events |-> << [type |-> "INIT", timestamp |-> clock, state |-> migratedState] >> ]

\* elements of an old interventions array
OldInterventionValues == {OldName("a"), [name |-> "b", disabled |-> TRUE]}

\* the observation lists of an old snapshot with k interventions: none, one night with
\* any flags, or a night without flags followed by one with notes
OldObservationLists(k) ==
  {<<>>}
  \cup {<<[date |-> 5, interventions |-> f, score |-> 75]>> : f \in [1..k -> BOOLEAN]}
  \cup {<< [date |-> 6, score |-> 60],
           [date |-> 7, interventions |-> [i \in 1..k |-> TRUE], score |-> 80,
            notes |-> NotesA] >>}

\* old snapshots: with every field of the old AppState, or with the two arrays only
OldSnapshots ==
  UNION { { [ interventions |-> ints, observations |-> obs,
              pendingNight |-> Some([date |-> 20, interventions |-> [i \in 1..Len(ints) |-> TRUE],
                                     samples |-> [i \in 1..Len(ints) |-> 1], asleep |-> FALSE]),
              groups |-> <<GroupA>>,
              config |-> [baseline |-> 700, tau |-> 30, sigma |-> 100],
              noteTagDefinitions |-> <<TagA>>,
              checklistItems |-> <<ItemA>> ],
            [ interventions |-> ints, observations |-> obs ] } :
          ints \in SeqsUpTo(OldInterventionValues, MaxDim),
          obs \in UNION {OldObservationLists(k) : k \in 0..MaxDim} }

\* logs handed to migrateLog
LogsToMigrate ==
  {[version |-> CURRENT_VERSION, events |-> seed] : seed \in StoredLogs \cup ReplaySeeds}
  \cup {ImportedLog, CorruptLog, NestedLog, NestedCorruptLog}

\* one library call: not made before, its arguments and result recorded
Call(fn, args, result) ==
  /\ invoked = Null
  /\ invoked' = Some([fn |-> fn, args |-> args])
  /\ returned' = Some(result)
  /\ UNCHANGED <<state, eventLogRef, storage, pc, inflight, queue, now, DEFAULT_STATE,
                 harnessVars, uiVars>>

callMigrateSnapshot ==
  \E snapshot \in OldSnapshots :
    Call("migrateSnapshot", snapshot, migrateSnapshot(snapshot, now))

callMigrateLog ==
  \E log \in LogsToMigrate :
    Call("migrateLog", log, [once |-> migrateLog(log), twice |-> migrateLog(migrateLog(log))])

-----------------------------------------------------------------------------
(* matrix.ts: numbers are exact rationals <<numerator, denominator>> in lowest terms
   with a positive denominator; a Matrix is a sequence of rows. *)

MathAbsInt(n) == IF n < 0 THEN -n ELSE n

RECURSIVE GCD(_, _)
GCD(a, b) == IF b = 0 THEN a ELSE GCD(b, a % b)

Num(n, d) ==
  LET g == GCD(MathAbsInt(n), MathAbsInt(d))
      s == IF d < 0 THEN -1 ELSE 1
  IN <<(s * n) \div g, (s * d) \div g>>

Whole(n) == <<n, 1>>

\* a * b, reduced crosswise before multiplying
Times(a, b) ==
  LET g == GCD(MathAbsInt(a[1]), b[2])
      h == GCD(MathAbsInt(b[1]), a[2])
  IN Num((a[1] \div g) * (b[1] \div h), (a[2] \div h) * (b[2] \div g))

\* a + b over the least common denominator
Plus(a, b) ==
  LET g == GCD(a[2], b[2])
  IN Num(a[1] * (b[2] \div g) + b[1] * (a[2] \div g), (a[2] \div g) * b[2])

Minus(a, b) == Plus(a, <<-b[1], b[2]>>)

\* a / b for b # 0
Divide(a, b) == Times(a, Num(b[2], b[1]))

MathAbs(a) == <<MathAbsInt(a[1]), a[2]>>

Greater(a, b) == a[1] * b[2] > b[1] * a[2]

\* the largest r in lo..hi with r * r <= n, by bisection (hi * hi fits the integer width)
RECURSIVE RootBetween(_, _, _)
RootBetween(n, lo, hi) ==
  IF lo >= hi THEN lo
  ELSE LET mid == (lo + hi + 1) \div 2
       IN IF mid * mid <= n THEN RootBetween(n, mid, hi) ELSE RootBetween(n, lo, mid - 1)

Root(n) == RootBetween(n, 0, 46340)

\* Math.sqrt: exact on the squares of rationals, otherwise the term "sqrt of a"
MathSqrt(a) ==
  IF Root(a[1]) * Root(a[1]) = a[1] /\ Root(a[2]) * Root(a[2]) = a[2]
  THEN <<Root(a[1]), Root(a[2])>>
  ELSE <<a[1], a[2], "sqrt">>

RECURSIVE SumOf(_)
SumOf(seq) == IF seq = <<>> THEN Whole(0) ELSE Plus(Head(seq), SumOf(Tail(seq)))

\* the array with the elements of f, each computed once
Array(f) == SubSeq(f, 1, Len(f))

zeros(rows, cols) == Array([i \in 1..rows |-> Array([j \in 1..cols |-> Whole(0)])])

\* a matrix of ones in place of the identity
identityFilled(n) == Array([i \in 1..n |-> Array([j \in 1..n |-> Whole(1)])])

identity(n) ==
  Array([i \in 1..n |-> Array([j \in 1..n |-> IF i = j THEN Whole(1) ELSE Whole(0)])])

transpose(A) ==
  IF Len(A) = 0 THEN <<>>
  ELSE Array([j \in 1..Len(A[1]) |-> Array([i \in 1..Len(A) |-> A[i][j]])])

matmul(A, B) ==
  IF Len(A) = 0 \/ Len(B) = 0 THEN <<>>
  ELSE Array([i \in 1..Len(A) |->
         Array([j \in 1..Len(B[1]) |->
            SumOf(Array([k \in 1..Len(A[1]) |-> Times(A[i][k], B[k][j])]))])])

addMatrices(A, B) ==
  Array([i \in 1..Len(A) |-> Array([j \in 1..Len(A[i]) |-> Plus(A[i][j], B[i][j])])])

scaleMatrix(A, s) ==
  Array([i \in 1..Len(A) |-> Array([j \in 1..Len(A[i]) |-> Times(A[i][j], s)])])

\* a diagonal entry without its square root
sqrtForgotten(sum) == sum

\* Math.sqrt(Math.max(sum, 1e-10)): every positive number of the model has a denominator
\* below 2^31 and so exceeds 1e-10
sqrtFloored(sum) == IF sum[1] <= 0 THEN <<1, 100000>> ELSE MathSqrt(sum)

\* cholesky, inner loop: row i of L from the rows before it, entries j = 1..i in order,
\* zeros after the diagonal
RECURSIVE choleskyRow(_, _, _, _)
choleskyRow(A, L, i, row) ==
  LET j == Len(row) + 1
      sum == Minus(A[i][j],
                   SumOf(Array([k \in 1..(j - 1) |->
                                  Times(row[k], IF j = i THEN row[k] ELSE L[j][k])])))
  IN IF j > Len(A) THEN row
     ELSE IF j > i THEN choleskyRow(A, L, i, Append(row, Whole(0)))
     ELSE IF i = j THEN choleskyRow(A, L, i, Append(row, sqrtFloored(sum)))
     ELSE choleskyRow(A, L, i, Append(row, Divide(sum, L[j][j])))

\* cholesky, outer loop
RECURSIVE choleskyRows(_, _)
choleskyRows(A, L) ==
  IF Len(L) = Len(A) THEN L
  ELSE choleskyRows(A, Append(L, choleskyRow(A, L, Len(L) + 1, <<>>)))

cholesky(A) == choleskyRows(A, <<>>)

\* the row with the largest |U[i][k]| among rows k..n, the first such row on ties
RECURSIVE maxRowFrom(_, _, _, _, _)
maxRowFrom(U, k, i, maxVal, maxRow) ==
  IF i > Len(U) THEN maxRow
  ELSE IF Greater(MathAbs(U[i][k]), maxVal)
       THEN maxRowFrom(U, k, i + 1, MathAbs(U[i][k]), i)
       ELSE maxRowFrom(U, k, i + 1, maxVal, maxRow)

swapRows(M, a, b) == [M EXCEPT ![a] = M[b], ![b] = M[a]]

\* a pivot step that swaps the rows of U and L and leaves P as it is
pivotKeepsP(lu, k) ==
  LET maxRow == maxRowFrom(lu.U, k, k + 1, MathAbs(lu.U[k][k]), k)
  IN IF maxRow # k
     THEN [L |-> swapRows(lu.L, k, maxRow),
           U |-> swapRows(lu.U, k, maxRow),
           P |-> lu.P]
     ELSE lu

\* step k of the decomposition, first half: partial pivoting
pivot(lu, k) ==
  LET maxRow == maxRowFrom(lu.U, k, k + 1, MathAbs(lu.U[k][k]), k)
  IN IF maxRow # k
     THEN [L |-> swapRows(lu.L, k, maxRow),
           U |-> swapRows(lu.U, k, maxRow),
           P |-> swapRows(lu.P, k, maxRow)]
     ELSE lu

\* step k, second half: L[k][k] = 1 and elimination below row k
eliminate(lu, k) ==
  LET n == Len(lu.U)
      factor == Array([i \in 1..n |->
                  IF i > k THEN Divide(lu.U[i][k], lu.U[k][k]) ELSE Whole(0)])
  IN [L |-> Array([i \in 1..n |-> Array([j \in 1..n |->
               IF j = k /\ i = k THEN Whole(1)
               ELSE IF j = k /\ i > k THEN factor[i]
               ELSE lu.L[i][j]])]),
      U |-> Array([i \in 1..n |-> Array([j \in 1..n |->
               IF i > k /\ j >= k
               THEN Minus(lu.U[i][j], Times(factor[i], lu.U[k][j]))
               ELSE lu.U[i][j]])]),
      P |-> lu.P]

RECURSIVE decompose(_, _)
decompose(lu, k) ==
  IF k > Len(lu.U) THEN lu ELSE decompose(eliminate(pivot(lu, k), k), k + 1)

\* forward substitution: y[i] = P[i][col] - sum over j < i of L[i][j] * y[j]
RECURSIVE forward(_, _, _)
forward(lu, col, y) ==
  LET i == Len(y) + 1
  IN IF i > Len(lu.U) THEN y
     ELSE forward(lu, col,
                  Append(y, Minus(lu.P[i][col],
                                  SumOf(Array([j \in 1..(i - 1) |->
                                                 Times(lu.L[i][j], y[j])])))))

\* back substitution from the last row up; done holds inv[i+1..n][col]
RECURSIVE backward(_, _, _)
backward(lu, y, done) ==
  LET i == Len(lu.U) - Len(done)
  IN IF i = 0 THEN done
     ELSE backward(lu, y,
                   <<Divide(Minus(y[i], SumOf(Array([j \in 1..Len(done) |->
                                                       Times(lu.U[i][i + j], done[j])]))),
                            lu.U[i][i])>> \o done)

\* inverse: LU decomposition with partial pivoting, then forward and back substitution
\* for each column
inverse(A) ==
  LET n == Len(A)
      lu == decompose([L |-> zeros(n, n), U |-> A, P |-> identity(n)], 1)
      columns == Array([col \in 1..n |-> backward(lu, forward(lu, col, <<>>), <<>>)])
  IN IF n = 0 THEN <<>>
     ELSE Array([i \in 1..n |-> Array([col \in 1..n |-> columns[col][i]])])

-----------------------------------------------------------------------------
(* bayesian.ts: computePosterior over dense observations *)

\* a filter that accepts every vector of at least k flags
validObsTruncating(observations, k) ==
  SelectSeq(observations,
            LAMBDA obs : "interventions" \in DOMAIN obs /\ Len(obs.interventions) >= k)

\* the observations whose vector has exactly k flags
validObs(observations, k) ==
  SelectSeq(observations,
            LAMBDA obs : "interventions" \in DOMAIN obs /\ Len(obs.interventions) = k)

computePosterior(interventions, observations, config) ==
  LET k == Len(interventions)
      tauSq == Times(config.tau, config.tau)
      sigmaSq == Times(config.sigma, config.sigma)
      valid == validObs(observations, k)
      n == Len(valid)
      priorPrecision == scaleMatrix(identity(k), Divide(Whole(1), tauSq))
      X == Array([r \in 1..n |-> Array([i \in 1..k |->
              IF valid[r].interventions[i] THEN Whole(1) ELSE Whole(0)])])
      y == Array([r \in 1..n |-> <<Minus(valid[r].score, config.baseline)>>])
      Xt == transpose(X)
      XtX == matmul(Xt, X)
      Xty == matmul(Xt, y)
      postPrecision == addMatrices(priorPrecision, scaleMatrix(XtX, Divide(Whole(1), sigmaSq)))
      postCov == inverse(postPrecision)
      scaledXty == scaleMatrix(Xty, Divide(Whole(1), sigmaSq))
      product == matmul(postCov, scaledXty)
  IN IF k = 0 THEN [mean |-> <<>>, cov |-> <<>>, std |-> <<>>, precision |-> <<>>]
     ELSE IF n = 0
     THEN [mean |-> [i \in 1..k |-> Whole(0)],
           cov |-> scaleMatrix(identity(k), tauSq),
           std |-> [i \in 1..k |-> config.tau],
           precision |-> priorPrecision]
     ELSE [mean |-> [i \in 1..k |-> product[i][1]],
           cov |-> postCov,
           std |-> [i \in 1..k |-> MathSqrt(postCov[i][i])],
           precision |-> postPrecision]

-----------------------------------------------------------------------------
(* bayesian.ts: expectedImprovement.  normalCDF and the Simpson integral of
   groupActivationProbability are kept as terms over their exact arguments, and the
   running total is the sequence of the products added to it, in order. *)

normalCDF(x) == [normalCDF |-> x]

probPositive(mean, std) ==
  IF std = Whole(0) THEN (IF Greater(mean, Whole(0)) THEN [exactly |-> 1] ELSE [exactly |-> 0])
  ELSE normalCDF(Divide(mean, std))

groupActivationProbability(j, means, stds) ==
  [groupActivationProbability |-> [j |-> j, means |-> means, stds |-> stds]]

\* one "total += mean * probability"
Product(mean, probability) == [mean |-> mean, times |-> probability]

\* the members of a group with an index below k, disabled or not
membersBelow(interventions, group) ==
  SelectSeq(group.interventionIndices, LAMBDA idx : idx < Len(interventions))

\* the enabled members of a group
enabledMembers(interventions, group) ==
  SelectSeq(group.interventionIndices,
            LAMBDA idx : idx < Len(interventions) /\ ~interventions[idx + 1].disabled)

\* what one group adds to the total
groupContribution(interventions, posterior, group) ==
  LET enabled == enabledMembers(interventions, group)
      groupMeans == Array([j \in 1..Len(enabled) |-> posterior.mean[enabled[j] + 1]])
      groupStds == Array([j \in 1..Len(enabled) |-> posterior.std[enabled[j] + 1]])
  IN IF Len(enabled) = 0 THEN <<>>
     ELSE IF Len(enabled) = 1
     THEN <<Product(posterior.mean[enabled[1] + 1],
                    probPositive(posterior.mean[enabled[1] + 1],
                                 posterior.std[enabled[1] + 1]))>>
     ELSE Array([j \in 1..Len(enabled) |->
                   Product(groupMeans[j],
                           groupActivationProbability(j - 1, groupMeans, groupStds))])

RECURSIVE Concat(_)
Concat(seqs) == IF seqs = <<>> THEN <<>> ELSE Head(seqs) \o Concat(Tail(seqs))

expectedImprovement(interventions, posterior, groups) ==
  LET k == Len(interventions)
      inGroup == UNION {{g.interventionIndices[m] : m \in DOMAIN g.interventionIndices}
                          : g \in {groups[n] : n \in DOMAIN groups}}
      single(i) ==
        IF ~interventions[i].disabled /\ (i - 1) \notin inGroup
        THEN <<Product(posterior.mean[i], probPositive(posterior.mean[i], posterior.std[i]))>>
        ELSE <<>>
  IN IF k = 0 THEN <<>>
     ELSE Concat(Array([i \in 1..k |-> single(i)]))
            \o Concat(Array([n \in 1..Len(groups) |->
                               groupContribution(interventions, posterior, groups[n])]))

-----------------------------------------------------------------------------
(* Calls of the matrix and posterior functions *)

\* entries of the matrices to invert: the first column decides the first row swap
MatrixEntries(j) == IF j = 1 THEN {-2, 0, 1} ELSE {0, 1}

\* determinant by expansion along the first row
RECURSIVE Determinant(_)
Determinant(M) ==
  LET n == Len(M)
      minor(c) == [i \in 1..(n - 1) |-> [j \in 1..(n - 1) |->
                     M[i + 1][IF j < c THEN j ELSE j + 1]]]
      sign(c) == IF c % 2 = 1 THEN 1 ELSE -1
      term(c) == IF M[1][c] = 0 THEN 0 ELSE sign(c) * M[1][c] * Determinant(minor(c))
  IN IF n = 0 THEN 1
     ELSE IF n = 1 THEN M[1][1]
     ELSE IF n = 2 THEN M[1][1] * M[2][2] - M[1][2] * M[2][1]
     ELSE term(1) + term(2) + term(3)

Numbers(M) == Array([i \in DOMAIN M |-> Array([j \in DOMAIN M[i] |-> Whole(M[i][j])])])

SquareMatrices(n) ==
  {M \in [1..n -> [1..n -> {-2, 0, 1}]] : \A i, j \in 1..n : M[i][j] \in MatrixEntries(j)}

\* the square invertible matrices over MatrixEntries, up to MaxDim rows
InvertibleMatrices ==
  UNION {{Numbers(M) : M \in {N \in SquareMatrices(n) : Determinant(N) # 0}}
           : n \in 0..MaxDim}

\* lower-triangular factors with a positive diagonal
Factors(n) ==
  {M \in [1..n -> [1..n -> {-1, 0, 1, 2}]] :
     \A i, j \in 1..n : /\ j > i => M[i][j] = 0
                        /\ j = i => M[i][j] > 0
                        /\ j < i => M[i][j] < 2}

\* symmetric positive-definite matrices: M times its transpose for each factor M
PositiveDefiniteMatrices ==
  UNION {{matmul(Numbers(M), transpose(Numbers(M))) : M \in Factors(n)} : n \in 1..MaxDim}

PosteriorNames == <<"A", "B", "C", "D">>

\* dense observations, with a vector of up to MaxDim flags or with none at all
DenseObservations ==
  {[interventions |-> f, score |-> Whole(sc)] : f \in SeqsUpTo(BOOLEAN, MaxDim), sc \in {79, 59}}
    \cup {[score |-> Whole(79)]}

\* the default baseline and tau, and a sigma that keeps 1 / sigma^2 and 1 / tau^2 over
\* the same denominator
POSTERIOR_CONFIG == [baseline |-> Whole(69), tau |-> Num(5, 2), sigma |-> Whole(5)]

\* means and standard deviations of a posterior handed to expectedImprovement
PosteriorMeans == {Whole(-1), Whole(2)}

PosteriorStds == {Whole(0), Whole(1)}

\* group lists: none, one group of the first two interventions, and two groups of which
\* the second names an index that may not exist
GroupLists ==
  {<<>>,
   <<[name |-> "g", interventionIndices |-> <<0, 1>>]>>,
   <<[name |-> "g", interventionIndices |-> <<1>>],
     [name |-> "h", interventionIndices |-> <<0, MaxDim>>]>>}

callExpectedImprovement ==
  \E k \in 0..MaxDim, groups \in GroupLists :
    \E disabled \in [1..k -> BOOLEAN], mean \in [1..k -> PosteriorMeans],
       std \in [1..k -> PosteriorStds] :
      LET interventions == Array([i \in 1..k |->
                                   [name |-> PosteriorNames[i], disabled |-> disabled[i]]])
          posterior == [mean |-> Array(mean), std |-> Array(std)]
      IN Call("expectedImprovement",
              [interventions |-> interventions, posterior |-> posterior, groups |-> groups],
              expectedImprovement(interventions, posterior, groups))

-----------------------------------------------------------------------------
(* DataManager.tsx: export, and full-backup import through the hook's importData *)

\* JSON.stringify / JSON.parse: the text of a value, and the value of a text
JSONstringify(value) == [text |-> value]

JSONparse(blob) == blob.text

\* handleExport: the downloaded file holds the data prop, which is the AppState
handleExport(data) == JSONstringify(data)

\* handleImportFull: the guard on the parsed text (an array is truthy even when empty)
acceptedAsFullBackup(parsed) ==
  "interventions" \in DOMAIN parsed /\ "observations" \in DOMAIN parsed

\* the state rendered after importData(imported, true) on state st at time clock
stateAfterFullImport(st, imported, clock) ==
  LET isLog == "version" \in DOMAIN imported /\ "events" \in DOMAIN imported
      initLog ==
        [ version |-> CURRENT_VERSION,
          events |-> << [ type |-> "INIT",
                          timestamp |-> clock,
                          state |->
                            [ interventions |-> OrElse(imported, "interventions", <<>>),
                              observations |-> OrElse(imported, "observations", <<>>),
                              pendingNight |-> OrElse(imported, "pendingNight", Null),
                              groups |-> OrElse(imported, "groups", <<>>),
                              config |-> OrElse(imported, "config", st.config),
                              noteTagDefinitions |->
                                OrElse(imported, "noteTagDefinitions",
                                       DEFAULT_NOTE_TAG_DEFINITIONS),
                              checklistItems |-> OrElse(imported, "checklistItems", <<>>) ] ] >> ]
  IN reducer(st, [type |-> "IMPORT_DATA", timestamp |-> clock,
                  eventLog |-> IF isLog THEN migrateLog(imported) ELSE initLog])

\* handleImportFull on a pasted text: onImport(parsed, true) when the guard accepts,
\* an alert and no change otherwise
handleImportFull(st, blob, clock) ==
  IF acceptedAsFullBackup(JSONparse(blob))
  THEN [accepted |-> TRUE, state |-> stateAfterFullImport(st, JSONparse(blob), clock)]
  ELSE [accepted |-> FALSE, state |-> Ok(st)]

\* the event logs an application can hold: those whose replay succeeds
ReplayableLogs == {log \in LogsToMigrate : replayEvents(log.events) # Thrown}

\* export from the application holding the log, then full-backup import of the file into
\* a fresh application; rawLog is the same import for a file with the raw log
callExportImport ==
  \E log \in ReplayableLogs :
    LET data == replayEvents(log.events)[1]
    IN Call("handleExport", log,
            [ artifact |-> handleExport(data),
              import |-> handleImportFull(DEFAULT_STATE, handleExport(data), now),
              rawLog |-> handleImportFull(DEFAULT_STATE, JSONstringify(log), now) ])

callInverse ==
  \E A \in InvertibleMatrices : Call("inverse", A, inverse(A))

callCholesky ==
  \E A \in PositiveDefiniteMatrices : Call("cholesky", A, cholesky(A))

\* a variant of toDense that assigns at every active index: an index at or beyond the
\* count lengthens the array
toDenseUnguarded(obs, interventionCount) ==
  LET active == obs.activeInterventions
      longest == IF active = <<>> THEN 0
                 ELSE (CHOOSE m \in {active[j] : j \in DOMAIN active} :
                         \A j \in DOMAIN active : active[j] <= m) + 1
      size == IF longest > interventionCount THEN longest ELSE interventionCount
  IN [ interventions |-> [i \in 1..size |-> \E j \in DOMAIN active : active[j] = i - 1],
       score |-> obs.score ]

\* for (const idx of obs.activeInterventions) if (idx < interventionCount) ...
RECURSIVE markActive(_, _, _, _)
markActive(interventions, active, j, interventionCount) ==
  IF j > Len(active) THEN interventions
  ELSE markActive(IF active[j] < interventionCount
                  THEN [interventions EXCEPT ![active[j] + 1] = TRUE]
                  ELSE interventions,
                  active, j + 1, interventionCount)

\* toDense(obs, interventionCount)
toDense(obs, interventionCount) ==
  [ interventions |-> markActive([i \in 1..interventionCount |-> FALSE],
                                 obs.activeInterventions, 1, interventionCount),
    score |-> obs.score ]

\* usePosterior: the dense rows handed to computePosterior, and what it returns;
\* iterating obs.activeInterventions of an observation without the field throws
usePosterior(interventions, observations, config) ==
  IF \E r \in DOMAIN observations : "activeInterventions" \notin DOMAIN observations[r]
  THEN Thrown
  ELSE LET dense == [r \in 1..Len(observations) |->
                       toDense(observations[r], Len(interventions))]
       IN Ok([dense |-> dense, posterior |-> computePosterior(interventions, dense, config)])

\* observations of the state: sparse, with active indices in any order, repeated, or
\* beyond the intervention count, and an observation still in the dense shape
StateObservations ==
  {[activeInterventions |-> a, score |-> Whole(79)] : a \in SeqsUpTo(0..MaxDim, 2)}
    \cup {[date |-> 5, interventions |-> <<TRUE>>, score |-> Whole(79)]}

callUsePosterior ==
  \E k \in 0..MaxDim, observations \in SeqsUpTo(StateObservations, 2) :
    Call("usePosterior",
         [interventions |-> SubSeq(PosteriorNames, 1, k), observations |-> observations,
          config |-> POSTERIOR_CONFIG],
         usePosterior(SubSeq(PosteriorNames, 1, k), observations, POSTERIOR_CONFIG))

callComputePosterior ==
  \E k \in 0..MaxDim, observations \in SeqsUpTo(DenseObservations, 2) :
    Call("computePosterior",
         [interventions |-> SubSeq(PosteriorNames, 1, k), observations |-> observations,
          config |-> POSTERIOR_CONFIG],
         Ok(computePosterior(SubSeq(PosteriorNames, 1, k), observations, POSTERIOR_CONFIG)))

-----------------------------------------------------------------------------
(* The library functions, each called once from the initial state *)

NextLib ==
  \/ callMigrateSnapshot
  \/ callMigrateLog
  \/ callInverse
  \/ callCholesky
  \/ callComputePosterior
  \/ callExpectedImprovement
  \/ callExportImport
  \/ callUsePosterior

InitLib ==
  /\ DEFAULT_STATE = DefaultStateValue
  /\ HarnessInit(<<>>)
  /\ now = StartTime
  /\ storage = [version |-> CURRENT_VERSION, events |-> <<>>]
  /\ eventLogRef = loadEventLog
  /\ state = Ok(DefaultStateValue)
  /\ pc = "idle"
  /\ inflight = Null
  /\ queue = <<>>

SpecLib == InitLib /\ [][NextLib]_vars

-----------------------------------------------------------------------------
(* Properties of applyEvent / replayEvents, checked under SpecReplay *)

\* the state before the last event of the harness sequence
Before == replayEvents(Front(evs))

\* an event of a type outside the catalog, also inside an embedded log
RECURSIVE ContainsUnknown(_)
ContainsUnknown(e) ==
  \/ e.type \notin CatalogTypes
  \/ /\ e.type = "IMPORT_DATA"
     /\ \E i \in 1..Len(e.eventLog.events) : ContainsUnknown(e.eventLog.events[i])

\* events[i] has a known type and a payload without the required shape: a missing
\* field, or an intervention index outside the list of the state it is applied to
MalformedAt(events, i) ==
  LET e == events[i]
      prior == replayEvents(SubSeq(events, 1, i - 1))
  IN \/ e.type \in {"RENAME_INTERVENTION", "TOGGLE_INTERVENTION_DISABLED"}
        /\ "index" \notin DOMAIN e
     \/ e.type = "ROLL_TONIGHT" /\ "activeInterventions" \notin DOMAIN e
     \/ /\ e.type \in {"RENAME_INTERVENTION", "TOGGLE_INTERVENTION_DISABLED"}
        /\ "index" \in DOMAIN e
        /\ prior # Thrown
        /\ e.index \notin 0..(Len(prior[1].interventions) - 1)

\* a pending night of the PendingNight shape, or none
PendingWellShaped(st) ==
  st.pendingNight # Null => "interventions" \in DOMAIN st.pendingNight[1]

\* C2 Incrementality: replaying a sequence followed by one event equals applyEvent,
\* called without a replay context, on the replay of the sequence; acc is built by
\* such calls alone, so it equals the replay of every sequence the harness reaches.
C2_Incrementality == acc = replayEvents(evs)

\* a night rolled, marked asleep and recorded, or an embedded log, was folded
C2_Witness ==
  /\ Len(evs) >= 3
  /\ evs[Len(evs) - 2].type \in {"ROLL_TONIGHT", "IMPORT_DATA"}
  /\ evs[Len(evs) - 1].type = "MARK_ASLEEP"
  /\ Last(evs).type = "RECORD_SCORE"
  /\ acc # Thrown
  /\ Len(acc[1].observations) = 1

C4_UnknownTypeFatal ==
  (\E i \in 1..Len(evs) : ContainsUnknown(evs[i])) => replayEvents(evs) = Thrown

\* the unknown event sits in an embedded log, after an event that was folded
C4_Witness ==
  /\ Len(evs) >= 2
  /\ evs[1].type = "ADD_INTERVENTION"
  /\ evs[2].type = "IMPORT_DATA"
  /\ ContainsUnknown(evs[2])
  /\ replays[2] # Thrown
  /\ replayEvents(evs) = Thrown

\* C5 (as claimed) A sequence with an event of a known type whose payload lacks the
\* required shape makes the replay throw at that event.
C5_MalformedFatal ==
  \A i \in 1..Len(evs) :
    MalformedAt(evs, i) => replayEvents(SubSeq(evs, 1, i)) = Thrown

\* C8 RECORD_SCORE with a pending night appends exactly one observation and sets
\* pendingNight to null; without a pending night it leaves the whole state unchanged.
C8_RecordScore ==
  (/\ Len(evs) > 0
   /\ Last(evs).type = "RECORD_SCORE"
   /\ Before # Thrown
   /\ PendingWellShaped(Before[1]))
  => IF Before[1].pendingNight = Null
     THEN acc = Before
     ELSE /\ acc # Thrown
          /\ Len(acc[1].observations) = Len(Before[1].observations) + 1
          /\ IsPrefix(Before[1].observations, acc[1].observations)
          /\ acc[1].pendingNight = Null

\* RECORD_SCORE was applied twice: with a pending night, then without one
C8_Witness ==
  /\ Len(evs) >= 3
  /\ evs[Len(evs) - 2].type = "ROLL_TONIGHT"
  /\ evs[Len(evs) - 1].type = "RECORD_SCORE"
  /\ Last(evs).type = "RECORD_SCORE"
  /\ acc # Thrown
  /\ Len(acc[1].observations) = 1
  /\ acc = Before

\* C9 CANCEL_PENDING sets pendingNight to null and changes nothing else, whether
\* or not a pending night existed.
C9_CancelPending ==
  (Len(evs) > 0 /\ Last(evs).type = "CANCEL_PENDING" /\ Before # Thrown)
  => /\ acc # Thrown
     /\ acc[1].pendingNight = Null
     /\ acc[1] = [Before[1] EXCEPT !.pendingNight = Null]

\* CANCEL_PENDING was applied to a state with observations and a pending night
C9_Witness ==
  /\ Len(evs) >= 2
  /\ Last(evs).type = "CANCEL_PENDING"
  /\ Before # Thrown
  /\ Before[1].pendingNight # Null
  /\ Before[1].observations # <<>>
  /\ acc # Thrown
  /\ acc[1].observations = Before[1].observations

\* the last event of the harness sequence, applied to a state and yielding one
LastApplied ==
  /\ Len(evs) > 0
  /\ Last(evs).type \in CatalogTypes
  /\ Before # Thrown
  /\ acc # Thrown

\* the event types whose case returns lists taken from the payload of the event
ReplacingTypes == {"INIT", "IMPORT_DATA", "IMPORT_HISTORICAL"}

\* index i (1-based) holds the same intervention before and after the event e: the
\* same record, or the record renamed / toggled by e at that index
SameIntervention(before, after, i, e) ==
  \/ after[i] = before[i]
  \/ /\ e.type = "RENAME_INTERVENTION"
     /\ "index" \in DOMAIN e /\ e.index = i - 1
     /\ after[i] = [name |-> e.newName, disabled |-> before[i].disabled]
  \/ /\ e.type = "TOGGLE_INTERVENTION_DISABLED"
     /\ "index" \in DOMAIN e /\ e.index = i - 1
     /\ after[i] = [name |-> before[i].name, disabled |-> ~before[i].disabled]

C18_ImportReplacesState ==
  (Len(evs) > 0 /\ Last(evs).type = "IMPORT_DATA" /\ Before # Thrown)
  => acc = replayEvents(Last(evs).eventLog.events)

\* a state with its own config, observation and pending night was replaced by the
\* state of an embedded log that has none of them
C18_Witness ==
  /\ LastApplied
  /\ Last(evs).type = "IMPORT_DATA"
  /\ Before[1].config # DefaultStateValue.config
  /\ Before[1].observations # <<>>
  /\ Before[1].pendingNight # Null
  /\ acc[1].config = DefaultStateValue.config
  /\ acc[1].observations = <<>>
  /\ Names(acc[1]) = {"b"}

\* the event types that are logged without a derived state change
LoggedOnlyTypes == {"CHECK_CHECKLIST_ITEM", "TOGGLE_NOTE_TAG"}

\* a log with its CHECK_CHECKLIST_ITEM and TOGGLE_NOTE_TAG events deleted
WithoutLogged(events) == SelectSeq(events, LAMBDA e : e.type \notin LoggedOnlyTypes)

\* C20 CHECK_CHECKLIST_ITEM and TOGGLE_NOTE_TAG return the state they were given;
\* deleting all of them from a log yields the same replayed state; the notes of an
\* observation are the notes payload of its RECORD_SCORE event.
C20_LoggedOnlyNoChange ==
  /\ (Len(evs) > 0 /\ Last(evs).type \in LoggedOnlyTypes /\ Before # Thrown)
     => acc = Before
  /\ replayEvents(WithoutLogged(evs)) = replayEvents(evs)
  /\ (/\ LastApplied
      /\ Last(evs).type = "RECORD_SCORE"
      /\ Before[1].pendingNight # Null)
     => Last(acc[1].observations).notes = Last(evs).notes

\* a night was rolled, a logged-only event followed and the score was recorded
C20_Witness ==
  /\ Len(evs) >= 3
  /\ evs[Len(evs) - 2].type = "ROLL_TONIGHT"
  /\ evs[Len(evs) - 1].type \in LoggedOnlyTypes
  /\ Last(evs).type = "RECORD_SCORE"
  /\ acc # Thrown
  /\ Len(acc[1].observations) = 1
  /\ acc[1].observations[1].notes = NotesA
  /\ Len(WithoutLogged(evs)) = Len(evs) - 1
  /\ replayEvents(WithoutLogged(evs)) = acc

\* C21 (as claimed) A night replayed as ROLL_TONIGHT, MARK_ASLEEP, RECORD_SCORE
\* yields an observation with nightDate the ROLL_TONIGHT timestamp, sleepDate the
\* MARK_ASLEEP timestamp and recordDate the RECORD_SCORE timestamp.
C21_ThreeTimestamps ==
  (/\ Len(evs) >= 3
   /\ evs[Len(evs) - 2].type = "ROLL_TONIGHT"
   /\ "activeInterventions" \in DOMAIN evs[Len(evs) - 2]
   /\ evs[Len(evs) - 1].type = "MARK_ASLEEP"
   /\ Last(evs).type = "RECORD_SCORE"
   /\ replayEvents(evs) # Thrown)
  => LET observation == Last(replayEvents(evs)[1].observations)
     IN /\ observation.nightDate = evs[Len(evs) - 2].timestamp
        /\ observation.sleepDate = evs[Len(evs) - 1].timestamp
        /\ observation.recordDate = Last(evs).timestamp

-----------------------------------------------------------------------------
(* Properties of the hook, checked under Spec *)

\* the persisted events and the states before and after the last of them
Persisted == storage.events
BeforeLast == replayEvents(Front(Persisted))
AfterLast == replayEvents(Persisted)

\* C1 Whenever a handler has returned and its dispatch has been rendered, the state
\* held by the hook equals replayEvents of the persisted events.
C1_StateIsReplay ==
  (pc = "idle" /\ queue = <<>>) => state = replayEvents(Persisted)

\* a historical import on top of a stored log was appended and rendered
C1_Witness ==
  /\ pc = "idle"
  /\ queue = <<>>
  /\ Len(Persisted) >= 4
  /\ Last(Persisted).type = "IMPORT_HISTORICAL"
  /\ state # Thrown
  /\ Len(state[1].observations) >= 2

\* C6 At every point, also inside a handler, what memory reflects (the reducer state
\* with the dispatched events applied) is the replay of a prefix of the persisted
\* events; a reload replays all of them, so it yields that state or a later one.
C6_PersistedBeforeMemory ==
  \E n \in 0..Len(Persisted) :
    reduceAll(state, queue) = replayEvents(SubSeq(Persisted, 1, n))

\* inside appendEvent, after saveEventLog and before dispatch: storage is ahead
C6_Witness ==
  /\ pc = "dispatch"
  /\ inflight # Null
  /\ Last(Persisted) = inflight[1]
  /\ state = BeforeLast
  /\ state # AfterLast

\* C7 Every step keeps the events persisted before it as a prefix of the events
\* persisted after it.
C7_AppendOnly == [][IsPrefix(storage.events, storage'.events)]_vars

\* a full-backup import of an event log has completed on top of a stored log
C7_Witness ==
  /\ pc = "idle"
  /\ Len(Persisted) >= 4
  /\ Last(Persisted).type = "IMPORT_DATA"
  /\ Last(Persisted).eventLog = ImportedLog
  /\ eventLogRef = storage
  /\ Persisted[1].type = "ADD_INTERVENTION"

\* the last persisted event ended the pending night that existed before it
EndsPendingNight ==
  /\ Len(Persisted) > 0
  /\ BeforeLast # Thrown
  /\ BeforeLast[1].pendingNight # Null
  /\ \/ AfterLast = Thrown
     \/ AfterLast[1].pendingNight = Null
     \/ AfterLast[1].pendingNight[1].date # BeforeLast[1].pendingNight[1].date

\* C10 (as claimed) A pending night is ended by RECORD_SCORE or CANCEL_PENDING only.
C10_OnlyRecordOrCancel ==
  EndsPendingNight => Last(Persisted).type \in {"RECORD_SCORE", "CANCEL_PENDING"}

\* C10 (amended) A pending night is ended by RECORD_SCORE, CANCEL_PENDING, an import
\* (IMPORT_HISTORICAL, IMPORT_DATA) or a further ROLL_TONIGHT, and by no other event.
C10_EndedByRecordCancelImportOrRoll ==
  EndsPendingNight =>
    Last(Persisted).type \in {"RECORD_SCORE", "CANCEL_PENDING", "IMPORT_HISTORICAL",
                              "IMPORT_DATA", "ROLL_TONIGHT"}

\* a historical import discarded a pending night that had been marked asleep
C10_Witness ==
  /\ EndsPendingNight
  /\ Last(Persisted).type = "IMPORT_HISTORICAL"
  /\ BeforeLast[1].pendingNight[1].asleep
  /\ state = AfterLast
  /\ state[1].pendingNight = Null

\* the event rollTonight has built from the rendered state and not yet dispatched
RollEmitted ==
  /\ inflight # Null
  /\ inflight[1].type = "ROLL_TONIGHT"
  /\ state # Thrown

\* the members of a group that the emitted activation vector has active
ActiveMembers(group, active) ==
  {group.interventionIndices[k] : k \in DOMAIN group.interventionIndices}
    \cap {i \in 0..(Len(active) - 1) : active[i + 1]}

\* C13 (as claimed) In every state the hook reaches, no two interventions have the
\* same name.
C13_UniqueNames ==
  state # Thrown =>
    \A i, j \in DOMAIN state[1].interventions :
      state[1].interventions[i].name = state[1].interventions[j].name => i = j

C15_GroupExclusiveRoll ==
  RollEmitted =>
    \A g \in DOMAIN state[1].groups :
      Cardinality(ActiveMembers(state[1].groups[g], inflight[1].activeInterventions)) <= 1

\* C16 The activation vector rollTonight emits is false at every disabled
\* intervention, and every active index has a sample strictly greater than 0.
C16_NoDisabledActive ==
  RollEmitted =>
    \A i \in DOMAIN inflight[1].activeInterventions :
      inflight[1].activeInterventions[i] =>
        /\ ~state[1].interventions[i].disabled
        /\ inflight[1].samples[i] > 0

\* a roll over a group whose first member is disabled with a positive sample: the
\* disabled member stays inactive, the other member is activated
C16_Witness ==
  /\ RollEmitted
  /\ state[1].groups # <<>>
  /\ state[1].groups[1].interventionIndices = <<0, 1>>
  /\ state[1].interventions[1].disabled
  /\ inflight[1].samples = <<1, 1>>
  /\ inflight[1].activeInterventions = <<FALSE, TRUE>>

\* no intervention of the state is enabled (the list is empty or all are disabled)
NoneEnabled(st) == \A i \in DOMAIN st.interventions : st.interventions[i].disabled

\* C17 From a state without an enabled intervention no step appends a ROLL_TONIGHT
\* event: rollTonight returns and leaves the log, the store and the state as they are.
C17_NoRollWithoutEnabled ==
  [][(state # Thrown /\ NoneEnabled(state[1]))
     => ~(/\ Len(eventLogRef'.events) > Len(eventLogRef.events)
          /\ Last(eventLogRef'.events).type = "ROLL_TONIGHT")]_vars

\* the only intervention was disabled during a pending night; it was enabled again
\* and the next roll was appended and rendered
C17_Witness ==
  /\ pc = "idle"
  /\ queue = <<>>
  /\ Len(Persisted) >= 3
  /\ Persisted[Len(Persisted) - 1].type = "TOGGLE_INTERVENTION_DISABLED"
  /\ Last(Persisted).type = "ROLL_TONIGHT"
  /\ replayEvents(SubSeq(Persisted, 1, Len(Persisted) - 2)) # Thrown
  /\ NoneEnabled(replayEvents(SubSeq(Persisted, 1, Len(Persisted) - 2))[1])
  /\ replayEvents(SubSeq(Persisted, 1, Len(Persisted) - 2))[1].interventions # <<>>
  /\ state = AfterLast
  /\ state[1].pendingNight # Null
  /\ state[1].pendingNight[1].date = Last(Persisted).timestamp

\* findIndex over the merged list: the least 0-based position holding the name
FirstPosition(ints, name) ==
  (CHOOSE i \in DOMAIN ints :
     ints[i].name = name /\ \A j \in DOMAIN ints : ints[j].name = name => i <= j) - 1

\* after is before merged with the historical data
MergedFrom(before, after, data) ==
  LET added == SubSeq(after.interventions, Len(before.interventions) + 1,
                      Len(after.interventions))
      imported == SubSeq(after.observations, Len(before.observations) + 1,
                         Len(after.observations))
      given == {data.interventions[k] : k \in DOMAIN data.interventions}
  IN /\ \A k \in DOMAIN added :
          added[k].name \in given /\ added[k].name \notin Names(before)
     /\ given \subseteq Names(after)
     /\ Len(imported) = Len(data.nights)
     /\ \A k \in DOMAIN imported :
          /\ imported[k].score = data.nights[k].score
          /\ {imported[k].activeInterventions[j] :
                j \in DOMAIN imported[k].activeInterventions}
             = {FirstPosition(after.interventions, data.interventions[i]) :
                  i \in {i \in DOMAIN data.nights[k].interventions :
                           data.nights[k].interventions[i]}}

\* C19 A historical import keeps every intervention at its index and every
\* observation at its position, appends only interventions whose names the state
\* did not have, and turns each imported night into an observation whose active
\* indices are the merged-list positions of the names flagged true in that night.
C19_HistoricalMerge ==
  (/\ Len(Persisted) > 0
   /\ Last(Persisted).type = "IMPORT_HISTORICAL"
   /\ BeforeLast # Thrown)
  => /\ AfterLast # Thrown
     /\ IsPrefix(BeforeLast[1].interventions, AfterLast[1].interventions)
     /\ IsPrefix(BeforeLast[1].observations, AfterLast[1].observations)
     /\ \E data \in HistoricalInputs : MergedFrom(BeforeLast[1], AfterLast[1], data)

\* a list with one of the imported names and an observation was merged with two
\* imported nights
C19_Witness ==
  /\ pc = "idle"
  /\ queue = <<>>
  /\ Len(Persisted) > 0
  /\ Last(Persisted).type = "IMPORT_HISTORICAL"
  /\ BeforeLast # Thrown
  /\ Names(BeforeLast[1]) = {"a", "b"}
  /\ Len(BeforeLast[1].observations) = 1
  /\ state = AfterLast
  /\ Len(state[1].interventions) = 3
  /\ state[1].interventions[3].name = "c"
  /\ Len(state[1].observations) = 3
  /\ state[1].observations[2].activeInterventions = <<1>>
  /\ state[1].observations[3].activeInterventions = <<1, 2>>

\* the member indices of a group
Members(group) == {group.interventionIndices[k] : k \in DOMAIN group.interventionIndices}

\* no index is a member of two groups of the list
PairwiseDisjoint(groups) ==
  \A g, h \in DOMAIN groups : g # h => Members(groups[g]) \cap Members(groups[h]) = {}

\* the enabled members of a group that have a sample
EnabledMembers(group, st, samples) ==
  {idx \in Members(group) : idx < Len(samples) /\ ~st.interventions[idx + 1].disabled}

TiedBest(group, st, samples) ==
  LET enabled == EnabledMembers(group, st, samples)
  IN {w \in enabled : /\ samples[w + 1] > 0
                      /\ \A idx \in enabled : samples[idx + 1] <= samples[w + 1]}

Smallest(S) == CHOOSE m \in S : \A x \in S : m <= x

\* C32 (as claimed) When several enabled members of a group share the highest positive
\* sample, the roll activates the one with the smallest intervention index, whatever
\* the order in which the group's interventionIndices are stored.
C32_TieToSmallestIndex ==
  (RollEmitted /\ PairwiseDisjoint(state[1].groups)) =>
    \A g \in DOMAIN state[1].groups :
      LET tied == TiedBest(state[1].groups[g], state[1], inflight[1].samples)
      IN Cardinality(tied) >= 2 =>
           ActiveMembers(state[1].groups[g], inflight[1].activeInterventions)
             = {Smallest(tied)}

\* what the code does on a tie: the tied member that comes first in the stored
\* interventionIndices is the active one
C32_TieToFirstStored ==
  (RollEmitted /\ PairwiseDisjoint(state[1].groups)) =>
    \A g \in DOMAIN state[1].groups :
      LET indices == state[1].groups[g].interventionIndices
          tied == TiedBest(state[1].groups[g], state[1], inflight[1].samples)
      IN Cardinality(tied) >= 2 =>
           ActiveMembers(state[1].groups[g], inflight[1].activeInterventions)
             = {indices[Smallest({k \in DOMAIN indices : indices[k] \in tied})]}


\* the types of event after which the pending night is no longer the rolled one
NightReplacing ==
  {"INIT", "IMPORT_DATA", "IMPORT_HISTORICAL", "ROLL_TONIGHT", "RECORD_SCORE",
   "CANCEL_PENDING"}

\* the position in evs of the roll that started the night that is pending before
\* the last event, 0 if the pending night does not stem from a roll of evs
NightRoll ==
  LET rolls == {r \in 1..(Len(evs) - 1) :
                  /\ evs[r].type = "ROLL_TONIGHT"
                  /\ "activeInterventions" \in DOMAIN evs[r]
                  /\ \A j \in (r + 1)..(Len(evs) - 1) :
                       /\ evs[j].type \in CatalogTypes
                       /\ evs[j].type \notin NightReplacing}
  IN IF rolls = {} THEN 0 ELSE CHOOSE r \in rolls : TRUE

\* the vector with the toggles among events[j..n] applied in log order
RECURSIVE TogglesApplied(_, _, _, _)
TogglesApplied(vector, events, j, n) ==
  IF j > n THEN vector
  ELSE LET e == events[j]
           next == IF /\ e.type = "TOGGLE_PENDING_INTERVENTION"
                      /\ "index" \in DOMAIN e
                      /\ e.index \in 0..(Len(vector) - 1)
                   THEN [vector EXCEPT ![e.index + 1] = e.active]
                   ELSE vector
       IN TogglesApplied(next, events, j + 1, n)

\* the rolled vector of the night with every toggle of the night applied
NightVector ==
  TogglesApplied(evs[NightRoll].activeInterventions, evs, NightRoll + 1, Len(evs) - 1)

Ascending(s) == \A i, j \in DOMAIN s : i < j => s[i] < s[j]

\* C33 Recorded interventions: RECORD_SCORE stores the ascending indices that are true
\* in the pending vector, which is the rolled vector with every toggle of the night
\* applied in log order, toggles after MARK_ASLEEP included; a toggle with no pending
\* night or with an index outside the vector changes nothing.
C33_RecordedInterventions ==
  /\ (/\ Len(evs) > 0
      /\ Last(evs).type = "RECORD_SCORE"
      /\ Before # Thrown
      /\ Before[1].pendingNight # Null
      /\ PendingWellShaped(Before[1]))
     => /\ acc # Thrown
        /\ LET recorded == Last(acc[1].observations).activeInterventions
               vector == Before[1].pendingNight[1].interventions
           IN /\ Ascending(recorded)
              /\ {recorded[k] : k \in DOMAIN recorded} =
                   {i - 1 : i \in {i \in DOMAIN vector : vector[i]}}
              /\ NightRoll # 0 => vector = NightVector
  /\ (/\ Len(evs) > 0
      /\ Last(evs).type = "TOGGLE_PENDING_INTERVENTION"
      /\ Before # Thrown
      /\ PendingWellShaped(Before[1])
      /\ \/ Before[1].pendingNight = Null
         \/ "index" \notin DOMAIN Last(evs)
         \/ Last(evs).index \notin 0..(Len(Before[1].pendingNight[1].interventions) - 1))
     => acc = Before

\* a night rolled as <<TRUE, FALSE>>, index 0 switched off before MARK_ASLEEP and
\* index 1 switched on after it, then recorded
C33_Witness ==
  /\ Len(evs) = 7
  /\ evs[3].type = "ROLL_TONIGHT" /\ evs[3].activeInterventions = <<TRUE, FALSE>>
  /\ evs[4].type = "TOGGLE_PENDING_INTERVENTION" /\ evs[4].index = 0 /\ ~evs[4].active
  /\ evs[5].type = "MARK_ASLEEP"
  /\ evs[6].type = "TOGGLE_PENDING_INTERVENTION" /\ evs[6].index = 1 /\ evs[6].active
  /\ evs[7].type = "RECORD_SCORE"
  /\ acc # Thrown
  /\ Last(acc[1].observations).activeInterventions = <<1>>

\* the last toggle of an index wins: index 0 switched off, then on again, then recorded
C33_LastToggleWins ==
  /\ Len(evs) = 7
  /\ evs[4].type = "TOGGLE_PENDING_INTERVENTION" /\ evs[4].index = 0 /\ ~evs[4].active
  /\ evs[6].type = "TOGGLE_PENDING_INTERVENTION" /\ evs[6].index = 0 /\ evs[6].active
  /\ evs[7].type = "RECORD_SCORE"
  /\ acc # Thrown
  /\ Last(acc[1].observations).activeInterventions = <<0>>

\* a toggle with an index outside the pending vector was folded
C33_ToggleOutside ==
  /\ Len(evs) > 0
  /\ Last(evs).type = "TOGGLE_PENDING_INTERVENTION"
  /\ Before # Thrown
  /\ Before[1].pendingNight # Null
  /\ PendingWellShaped(Before[1])
  /\ Last(evs).index >= Len(Before[1].pendingNight[1].interventions)
  /\ acc = Before


\* C34 Pending vectors: whenever a pending night exists, its flag vector and its
\* samples vector have one entry per intervention of the current list.
C34_PendingVectorPerIntervention ==
  (/\ state # Thrown
   /\ state[1].pendingNight # Null
   /\ PendingWellShaped(state[1]))
  => /\ Len(state[1].pendingNight[1].interventions) = Len(state[1].interventions)
     /\ Len(state[1].pendingNight[1].samples) = Len(state[1].interventions)

\* what the code keeps: an intervention added during a pending night leaves the
\* vectors of the night as they were rolled
C34_AddLeavesPendingVectors ==
  (/\ pc = "dispatch"
   /\ inflight # Null
   /\ inflight[1].type = "ADD_INTERVENTION"
   /\ state # Thrown)
  => LET after == applyEvent(state[1], inflight[1], Null)
     IN after[1].pendingNight = state[1].pendingNight


\* the rendered state is the one a full-backup import of LegacySnapshot produced
LegacyImported ==
  /\ pc = "idle"
  /\ queue = <<>>
  /\ state # Thrown
  /\ Len(eventLogRef.events) > 0
  /\ LET last == Last(eventLogRef.events)
     IN /\ last.type = "IMPORT_DATA"
        /\ Len(last.eventLog.events) = 1
        /\ last.eventLog.events[1].type = "INIT"
        /\ last.eventLog.events[1].timestamp = last.timestamp
        /\ last.eventLog.events[1].state.interventions = LegacySnapshot.interventions

\* C38 Legacy import: after a full-backup import of a legacy snapshot every observation
\* of the state is in the sparse shape, as migrateSnapshot produces for that snapshot.
C38_LegacyImportMigrates ==
  LegacyImported
  => /\ \A k \in DOMAIN state[1].observations :
          "activeInterventions" \in DOMAIN state[1].observations[k]
     /\ state[1].observations =
          migrateSnapshot(LegacySnapshot, now).events[1].state.observations

\* what the code keeps: the observations of the snapshot are adopted as they are
C38_LegacyImportKeepsShape ==
  LegacyImported => state[1].observations = LegacySnapshot.observations

-----------------------------------------------------------------------------
(* Properties of the library functions, checked under SpecLib *)

\* the call that was made
Invoked(fn) == invoked # Null /\ invoked[1].fn = fn

\* C22 migrateSnapshot yields a log with exactly one event, of type INIT, whose replay
\* has the snapshot's interventions (strings turned into enabled interventions), its
\* groups and config, and its observations with activeInterventions the ascending
\* indices of the true dense flags.
C22_MigrateSnapshot ==
  Invoked("migrateSnapshot") =>
    LET snapshot == invoked[1].args
        log == returned[1]
        replayed == replayEvents(log.events)
        ints == IF "interventions" \in DOMAIN snapshot THEN snapshot.interventions ELSE <<>>
        old == snapshot.observations
    IN /\ Len(log.events) = 1
       /\ log.events[1].type = "INIT"
       /\ replayed # Thrown
       /\ Len(replayed[1].interventions) = Len(ints)
       /\ \A i \in DOMAIN ints :
            replayed[1].interventions[i] =
              IF IsString(ints[i]) THEN [name |-> ints[i].text, disabled |-> FALSE]
              ELSE ints[i]
       /\ "groups" \in DOMAIN snapshot => replayed[1].groups = snapshot.groups
       /\ "config" \in DOMAIN snapshot => replayed[1].config = snapshot.config
       /\ Len(replayed[1].observations) = Len(old)
       /\ \A k \in DOMAIN old :
            LET active == replayed[1].observations[k].activeInterventions
                flags == IF "interventions" \in DOMAIN old[k]
                         THEN old[k].interventions ELSE <<>>
            IN /\ \A j \in 1..(Len(active) - 1) : active[j] < active[j + 1]
               /\ {active[j] : j \in DOMAIN active}
                    = {i - 1 : i \in {i \in DOMAIN flags : flags[i]}}
               /\ replayed[1].observations[k].score = old[k].score
               /\ replayed[1].observations[k].nightDate = old[k].date

\* a snapshot with a string and a record intervention, groups, config and a night whose
\* second flag alone is true was migrated
C22_Witness ==
  /\ Invoked("migrateSnapshot")
  /\ invoked[1].args.interventions = <<OldName("a"), [name |-> "b", disabled |-> TRUE]>>
  /\ "config" \in DOMAIN invoked[1].args
  /\ Len(invoked[1].args.observations) = 1
  /\ invoked[1].args.observations[1].interventions = <<FALSE, TRUE>>
  /\ returned[1].events[1].state.interventions[1] = [name |-> "a", disabled |-> FALSE]
  /\ returned[1].events[1].state.observations[1].activeInterventions = <<1>>
  /\ returned[1].events[1].state.groups = <<GroupA>>

\* C23 migrateLog is idempotent and preserves the log: migrating twice equals
\* migrating once, and the result has the events of the input, as many, with the same
\* timestamps in the same order.
C23_MigrateLogIdempotent ==
  Invoked("migrateLog") =>
    /\ returned[1].twice = returned[1].once
    /\ Len(returned[1].once.events) = Len(invoked[1].args.events)
    /\ \A i \in DOMAIN invoked[1].args.events :
         returned[1].once.events[i].timestamp = invoked[1].args.events[i].timestamp

\* a log of several events, with an embedded log, was migrated
C23_Witness ==
  /\ Invoked("migrateLog")
  /\ invoked[1].args = NestedLog
  /\ Len(returned[1].once.events) = 3
  /\ returned[1].twice.events[1].eventLog = ImportedLog

\* the observations of a computePosterior call whose vector length is the intervention count
MatchingOnly(call) ==
  SelectSeq(call.observations,
            LAMBDA obs : /\ "interventions" \in DOMAIN obs
                         /\ Len(obs.interventions) = Len(call.interventions))

\* an observation of the call has a vector of another length than the intervention count
HasMismatch(call) ==
  \E r \in DOMAIN call.observations :
    /\ "interventions" \in DOMAIN call.observations[r]
    /\ Len(call.observations[r].interventions) # Len(call.interventions)

C25_MismatchThrows ==
  Invoked("computePosterior") =>
    LET call == invoked[1].args
        nonEmptyMismatch ==
          \E r \in DOMAIN call.observations :
            /\ "interventions" \in DOMAIN call.observations[r]
            /\ Len(call.observations[r].interventions) # 0
            /\ Len(call.observations[r].interventions) # Len(call.interventions)
    IN IF nonEmptyMismatch THEN returned[1] = Thrown
       ELSE returned[1] = Ok(computePosterior(call.interventions, MatchingOnly(call),
                                              call.config))

Altered(posterior, i, mean, std) ==
  [posterior EXCEPT !.mean[i] = mean, !.std[i] = std]

\* C27 Disabled interventions contribute nothing to expectedImprovement: the result is
\* the same for every mean and std of a disabled intervention, grouped or not, and a
\* group with exactly one enabled member contributes that member's mean times
\* probPositive(mean, std).
C27_DisabledContributeNothing ==
  Invoked("expectedImprovement") =>
    LET call == invoked[1].args
        k == Len(call.interventions)
    IN /\ \A i \in 1..k :
            call.interventions[i].disabled =>
              \A mean \in {Whole(-1), Whole(2), Whole(5)}, std \in {Whole(0), Whole(1), Whole(3)} :
                expectedImprovement(call.interventions,
                                    Altered(call.posterior, i, mean, std),
                                    call.groups) = returned[1]
       /\ \A n \in DOMAIN call.groups :
            LET enabled == {m \in DOMAIN call.groups[n].interventionIndices :
                              /\ call.groups[n].interventionIndices[m] < k
                              /\ ~call.interventions[call.groups[n].interventionIndices[m] + 1].disabled}
            IN Cardinality(enabled) = 1 =>
                 LET i == call.groups[n].interventionIndices[CHOOSE m \in enabled : TRUE] + 1
                     own == <<Product(call.posterior.mean[i],
                                      probPositive(call.posterior.mean[i], call.posterior.std[i]))>>
                 IN /\ groupContribution(call.interventions, call.posterior, call.groups[n]) = own
                    /\ \E from \in 1..Len(returned[1]) : SubSeq(returned[1], from, from) = own

\* the group test of the repository: two grouped interventions, the second disabled;
\* only the first contributes, as mean times normalCDF(mean / std)
C27_Witness ==
  /\ Invoked("expectedImprovement")
  /\ Len(invoked[1].args.interventions) = 2
  /\ ~invoked[1].args.interventions[1].disabled
  /\ invoked[1].args.interventions[2].disabled
  /\ invoked[1].args.groups = <<[name |-> "g", interventionIndices |-> <<0, 1>>]>>
  /\ invoked[1].args.posterior = [mean |-> <<Whole(2), Whole(-1)>>, std |-> <<Whole(1), Whole(1)>>]
  /\ returned[1] = <<[mean |-> Whole(2), times |-> [normalCDF |-> Whole(2)]]>>

\* C28 Export followed by full-backup import is a round trip: the exported artifact is
\* the raw event log (version and all events), the full-backup import accepts it, and
\* the state after the import is the replay of the exported log.
C28_ExportRoundTrip ==
  Invoked("handleExport") =>
    /\ JSONparse(returned[1].artifact) = invoked[1].args
    /\ returned[1].import.accepted
    /\ returned[1].import.state = replayEvents(invoked[1].args.events)

\* the part of C28 the code keeps: the exported file is accepted and the state after
\* importing it is the exported state
C28_SnapshotRoundTrip ==
  Invoked("handleExport") =>
    /\ JSONparse(returned[1].artifact) = replayEvents(invoked[1].args.events)[1]
    /\ returned[1].import.accepted
    /\ returned[1].import.state = replayEvents(invoked[1].args.events)

\* a file with the raw event log is refused by the full-backup import
C28_RawLogRefused ==
  Invoked("handleExport") => ~returned[1].rawLog.accepted

\* C39 Sparse to dense: for sparse observations and k interventions, every row handed
\* to computePosterior has length k and is true exactly at the active indices below k,
\* so the length filter of computePosterior keeps every observation.
C39_SparseToDense ==
  (/\ Invoked("usePosterior")
   /\ \A r \in DOMAIN invoked[1].args.observations :
        "activeInterventions" \in DOMAIN invoked[1].args.observations[r])
  => LET k == Len(invoked[1].args.interventions)
         observations == invoked[1].args.observations
     IN /\ returned[1] # Thrown
        /\ LET dense == returned[1][1].dense
           IN /\ Len(dense) = Len(observations)
              /\ \A r \in DOMAIN observations :
                   /\ Len(dense[r].interventions) = k
                   /\ dense[r].score = observations[r].score
                   /\ \A i \in 0..(k - 1) :
                        dense[r].interventions[i + 1] <=>
                          \E j \in DOMAIN observations[r].activeInterventions :
                            observations[r].activeInterventions[j] = i
              /\ validObs(dense, k) = dense
              /\ returned[1][1].posterior =
                   computePosterior(invoked[1].args.interventions, dense,
                                    invoked[1].args.config)

\* two interventions; one observation with indices 1 and 2, of which 2 is beyond the
\* count, and one with index 0 twice: both rows are kept and the posterior is not the prior
C39_Witness ==
  /\ Invoked("usePosterior")
  /\ invoked[1].args.interventions = <<"A", "B">>
  /\ Len(invoked[1].args.observations) = 2
  /\ invoked[1].args.observations[1].activeInterventions = <<1, 2>>
  /\ invoked[1].args.observations[2].activeInterventions = <<0, 0>>
  /\ returned[1] # Thrown
  /\ returned[1][1].dense[1].interventions = <<FALSE, TRUE>>
  /\ returned[1][1].dense[2].interventions = <<TRUE, FALSE>>
  /\ returned[1][1].posterior.mean[1] # Whole(0)
  /\ returned[1][1].posterior.mean[2] # Whole(0)

\* an observation still in the dense shape reaches usePosterior: the iteration throws
C39_DenseObservationThrows ==
  /\ Invoked("usePosterior")
  /\ \E r \in DOMAIN invoked[1].args.observations :
       "activeInterventions" \notin DOMAIN invoked[1].args.observations[r]
  /\ returned[1] = Thrown

-----------------------------------------------------------------------------
(* Properties of callbacks invoked before a render, checked under SpecUnrendered *)

\* two operations were invoked against the same rendered state, the second one a
\* historical import; React is about to render both
TwoUnrendered ==
  /\ pc = "idle"
  /\ state # Thrown
  /\ Len(queue) = 2
  /\ queue[1].type \in {"RECORD_SCORE", "ADD_INTERVENTION", "IMPORT_HISTORICAL"}
  /\ queue[2].type = "IMPORT_HISTORICAL"

AfterFirst == reduceAll(state, <<queue[1]>>)
AfterBoth == reduceAll(state, queue)

Observed(st) == {st.observations[k] : k \in DOMAIN st.observations}

\* C37 No lost update: when a mutating operation and then a historical import are
\* invoked against the same rendered state, the state after both still has the
\* observations and the interventions the first operation produced.
C37_NoLostUpdate ==
  TwoUnrendered
  => /\ AfterBoth # Thrown
     /\ Observed(AfterFirst[1]) \subseteq Observed(AfterBoth[1])
     /\ Names(AfterFirst[1]) \subseteq Names(AfterBoth[1])

\* what the code does: the import carries the lists of the render it closed over, and
\* IMPORT_HISTORICAL replaces the lists of the state by them
C37_ImportReplacesLists ==
  TwoUnrendered
  => /\ AfterBoth # Thrown
     /\ AfterBoth[1].observations = queue[2].observations
     /\ AfterBoth[1].interventions = queue[2].interventions
     /\ AfterBoth[1].observations = reduceAll(state, <<queue[2]>>)[1].observations
     /\ AfterBoth[1].interventions = reduceAll(state, <<queue[2]>>)[1].interventions

-----------------------------------------------------------------------------
(* Properties of the group manager, checked under SpecManager *)

\* C35 Group shape: every group of the state has at least two members, and every
\* member is a position of the intervention list.
C35_GroupsWellFormed ==
  state # Thrown =>
    \A g \in DOMAIN state[1].groups :
      /\ Cardinality(Members(state[1].groups[g])) >= 2
      /\ Len(state[1].groups[g].interventionIndices) >= 2
      /\ Members(state[1].groups[g]) \subseteq Indices(state[1].interventions)

\* the group of the stored log was edited through the form, its two members unticked
\* and the two other interventions ticked, and the update was rendered
C35_Witness ==
  /\ state # Thrown
  /\ pc = "idle" /\ queue = <<>>
  /\ ~FormShown
  /\ Len(eventLogRef.events) = 6
  /\ eventLogRef.events[5].type = "ADD_GROUP"
  /\ eventLogRef.events[5].group.interventionIndices = <<0, 1>>
  /\ eventLogRef.events[6].type = "UPDATE_GROUP"
  /\ state[1].groups = <<[name |-> "g", interventionIndices |-> <<2, 3>>]>>

\* C36 Disjoint groups: no intervention index belongs to more than one group.
C36_GroupsDisjoint ==
  state # Thrown => PairwiseDisjoint(state[1].groups)

\* what the code keeps: groups with different names stay disjoint
C36_DisjointAcrossNames ==
  state # Thrown =>
    \A g, h \in DOMAIN state[1].groups :
      state[1].groups[g].name # state[1].groups[h].name
        => Members(state[1].groups[g]) \cap Members(state[1].groups[h]) = {}

====
